---- MODULE Spec2Model ----
(***************************************************************************)
(* Recall OS: the Application Shell (App), the Memory Viewer and the AI    *)
(* Integration Layer (geminiService), as state machines.                   *)
(*                                                                         *)
(* Spec        : the Shell with its command bar and the Viewer opened on   *)
(*               one of the Shell's memories; every AI call is an          *)
(*               asynchronous request that settles in a later step.        *)
(* SpecViewer  : the same machine without the command bar (Viewer edits    *)
(*               and restores only).                                       *)
(* SpecService : the functions of geminiService applied to bounded inputs. *)
(*                                                                         *)
(* Strings are sequences of characters; the JavaScript value undefined is  *)
(* the reserved value UNDEF.  History indices are 0-based as in the code.  *)
(***************************************************************************)
EXTENDS Integers, Sequences, FiniteSets, TLC

\* ------------------------------------------------------------------ bounds
\* Date.now() readings in one run: every update of a record reads the clock,
\* and an AI call is started only while a reading is left for its result.
MaxTime == 2
\* Memories in the canonical list.
MaxMem == 2
\* Parts in one model response (SpecService).
MaxParts == 2
\* Mouse-move events of one run that pan the viewport or drag a node.
MaxMoves == 2
\* Longest tag list of a memory drawn on the canvas.
MaxTags == 2
\* Most files of one drop.
MaxFiles == 2

\* ----------------------------------------------------------------- values
UNDEF == <<"undefined">>

\* JavaScript truthiness of a string-or-undefined value.
Truthy(s) == s # <<>> /\ s # UNDEF

\* s.substring(a, b) for 0 <= a <= b <= s.length.
Substring(s, a, b) == SubSeq(s, a + 1, b)

\* The instruction texts typed into the Viewer's input.
Prompts == {"", " ", "fix"}

\* agentPrompt.trim()
Trim(p) == IF p = " " THEN "" ELSE p

NoSelection == [start |-> -1, end |-> -1, text |-> <<>>]

NoMemory ==
  [id |-> 0, type |-> "NONE", content |-> <<>>, thumbnail |-> <<>>,
   updatedAt |-> 0, history |-> <<>>, x |-> 0, y |-> 0]

NoEvent == [op |-> "ui", mounted |-> FALSE]

\* No service call has been made.
NoCall == [fn |-> "none"]

VARIABLES
  memories,        \* App: the canonical list of memory records
  activeMemory,    \* App: the record handed to the Viewer, or NoMemory
  appIsProcessing, \* App: isProcessing
  cmdPending,      \* App: runAgenticCommand calls awaited by handleCommand
  chatHistory,     \* App: the Agent Chat Panel's transcript
  now,             \* the last value Date.now() returned
  activeContent,   \* Viewer: the content on display
  agentPrompt,     \* Viewer: the instruction field
  isProcessing,    \* Viewer: the busy flag
  historyIndex,    \* Viewer: the viewing index
  selection,       \* Viewer: {start, end, text} or NoSelection
  pending,         \* Viewer: handleAgentAction calls awaiting their AI call
  ev,              \* the handler that ran last
  svc,             \* SpecService: the call and its result
  storage,         \* localStorage: the entry 'recall_memories', or NoEntry
  canvas,          \* SpatialCanvas: viewport, drag and pan state, context menu
  drops            \* App: handleDrop calls in progress

vars ==
  <<memories, activeMemory, appIsProcessing, cmdPending, chatHistory, now,
    activeContent, agentPrompt, isProcessing, historyIndex, selection, pending,
    ev, svc, storage, canvas, drops>>

shellVars ==
  <<memories, activeMemory, appIsProcessing, cmdPending, chatHistory, now>>
viewerVars ==
  <<activeContent, agentPrompt, isProcessing, historyIndex, selection, pending>>
canvasVars == <<canvas, drops>>

\* ------------------------------------------------------------ the records
\* An import entry that does not keep the imported content.
ImportEntryWithoutContent(c) ==
  [description |-> "Original Import", content |-> UNDEF, author |-> "user"]

\* The history entry of an ingested file.
ImportEntry(c) ==
  [description |-> "Original Import", content |-> c, author |-> "user"]

\* The seed record of the first start.
WelcomeMemory ==
  [id |-> 1, type |-> "TEXT", content |-> <<"a">>, thumbnail |-> <<>>,
   updatedAt |-> 0, tags |-> <<"system", "welcome">>, history |-> <<>>,
   x |-> 600, y |-> 400]

\* Records a previous session stored: an ingested image, and an ingested
\* text file that was edited once.
SavedImage ==
  [id |-> 1, type |-> "IMAGE", content |-> <<"a">>, thumbnail |-> <<"a">>,
   updatedAt |-> 0, tags |-> <<>>, history |-> <<ImportEntry(<<"a">>)>>,
   x |-> 900, y |-> 200]

SavedText ==
  [id |-> 2, type |-> "TEXT", content |-> <<"b">>, thumbnail |-> <<>>,
   updatedAt |-> 0, tags |-> <<>>,
   history |-> <<ImportEntry(<<"a">>),
                 [description |-> "Applied changes", content |-> <<"b">>,
                  author |-> "gemini"]>>,
   x |-> 600, y |-> 500]

\* An ingested empty text file that was edited once.
SavedEmpty ==
  [id |-> 1, type |-> "TEXT", content |-> <<"b">>, thumbnail |-> <<>>,
   updatedAt |-> 0, tags |-> <<>>,
   history |-> <<ImportEntry(<<>>),
                 [description |-> "Applied changes", content |-> <<"b">>,
                  author |-> "gemini"]>>,
   x |-> 600, y |-> 500]

\* A note of eight characters, as ingested.
SavedNote ==
  [id |-> 1, type |-> "TEXT",
   content |-> <<"A", "B", "C", "D", "E", "F", "G", "H">>,
   thumbnail |-> <<>>, updatedAt |-> 0, tags |-> <<>>,
   history |-> <<ImportEntry(<<"A", "B", "C", "D", "E", "F", "G", "H">>)>>,
   x |-> 600, y |-> 500]

\* What the load effect puts in the list: the seed (nothing was stored), or
\* the list a previous session stored.
SavedLists == {<<WelcomeMemory>>, <<SavedImage, SavedText>>, <<SavedEmpty>>}

IdsOf(list) == {list[k].id : k \in 1..Len(list)}

MemoryById(list, id) ==
  LET k == CHOOSE j \in 1..Len(list) : list[j].id = id IN list[k]

\* prev.map(m => m.id === updated.id ? updated : m)
ReplaceById(list, updated) ==
  [k \in 1..Len(list) |->
     IF list[k].id = updated.id THEN updated ELSE list[k]]

RemoveAt(seq, i) == SubSeq(seq, 1, i - 1) \o SubSeq(seq, i + 1, Len(seq))

\* ------------------------------------------------------------ persistence
\* No entry under the key 'recall_memories'.
NoEntry == <<"null">>

\* JSON.stringify of a history entry: a key whose value is undefined is left
\* out.
SerializeDiff(diff) ==
  IF diff.content = UNDEF
  THEN [description |-> diff.description, author |-> diff.author]
  ELSE [description |-> diff.description, content |-> diff.content,
        author |-> diff.author]

\* JSON.stringify of one record.
SerializeMemory(m) ==
  LET common ==
        [id |-> m.id, type |-> m.type, thumbnail |-> m.thumbnail,
         updatedAt |-> m.updatedAt, tags |-> m.tags, x |-> m.x, y |-> m.y,
         history |-> [k \in 1..Len(m.history) |-> SerializeDiff(m.history[k])]]
  IN IF m.content = UNDEF THEN common
     ELSE [k \in DOMAIN common \cup {"content"} |->
             IF k = "content" THEN m.content ELSE common[k]]

\* JSON.stringify(memories): the entry is a string, not null.
Serialize(list) ==
  <<"json", [k \in 1..Len(list) |-> SerializeMemory(list[k])]>>

\* Reading a key of a parsed object, with an absent key read as ''.
GetOrEmpty(object, key) == IF key \in DOMAIN object THEN object[key] ELSE <<>>
\* Reading a key of a parsed object: undefined when the key is absent.
Get(object, key) == IF key \in DOMAIN object THEN object[key] ELSE UNDEF

ParseDiff(json) ==
  [description |-> json.description, content |-> Get(json, "content"),
   author |-> json.author]

ParseMemory(json) ==
  [id |-> json.id, type |-> json.type, content |-> Get(json, "content"),
   thumbnail |-> json.thumbnail, updatedAt |-> json.updatedAt,
   tags |-> json.tags,
   history |-> [k \in 1..Len(json.history) |-> ParseDiff(json.history[k])],
   x |-> json.x, y |-> json.y]

\* JSON.parse(saved)
Parse(json) == [k \in 1..Len(json[2]) |-> ParseMemory(json[2][k])]

\* ----------------------------------------------------------- the Viewer
\* const isCurrentVersion = historyIndex === memory.history.length - 1
isCurrentVersion == historyIndex = Len(activeMemory.history) - 1

ViewerOpen == activeMemory # NoMemory

\* Variant of AppendDiff: the new entry overwrites the last one.
ReplaceLastDiff(history, diff) ==
  IF history = <<>> THEN <<diff>> ELSE [history EXCEPT ![Len(history)] = diff]

\* [...memory.history, newDiff]
AppendDiff(history, diff) == Append(history, diff)

\* thumbnail: memory.type === IMAGE ? newContent : memory.thumbnail
ThumbnailFor(memory, newContent) ==
  IF memory.type = "IMAGE" THEN newContent ELSE memory.thumbnail

\* An update that changes the content and leaves the history as it was.
UpdatedMemoryWithoutEntry(memory, newContent, description, author, t) ==
  [memory EXCEPT
     !.content = newContent,
     !.thumbnail = ThumbnailFor(memory, newContent),
     !.updatedAt = t]

\* The updatedMemory object of handleAgentAction and handleRestoreVersion.
UpdatedMemory(memory, newContent, description, author, t) ==
  [memory EXCEPT
     !.content = newContent,
     !.thumbnail = ThumbnailFor(memory, newContent),
     !.updatedAt = t,
     !.history = AppendDiff(memory.history,
                   [description |-> description, content |-> newContent,
                    author |-> author])]

\* Which AI operation handleAgentAction awaits.
OperationFor(memory, sel) ==
  IF memory.type = "IMAGE" THEN "remixMemory"
  ELSE IF sel # NoSelection THEN "editSpecificSelection"
  ELSE "editMemoryContent"

\* The closure of one handleAgentAction call while it awaits.  activeContent
\* and selection are kept where the code after the await reads them (the
\* splice of the selection edit); otherwise they only went into the prompt.
NewRequest(memory, content, sel) ==
  LET operation == OperationFor(memory, sel)
  IN [memory |-> memory,
      activeContent |->
        IF operation = "editSpecificSelection" THEN content ELSE <<>>,
      selection |-> sel,
      operation |-> operation,
      mounted |-> TRUE]

\* What the awaited operation may resolve to.
RemixResults == {<<>>, <<"b">>}
EditResults == {<<"b">>, UNDEF}
SelectionResults(sel) ==
  {<<"b">>, sel.text}
    \cup (IF Len(sel.text) > 1 THEN {<<>>, <<"X", "Y">>} ELSE {})

ResultsOf(req) ==
  CASE req.operation = "remixMemory" -> RemixResults
    [] req.operation = "editSpecificSelection" -> SelectionResults(req.selection)
    [] OTHER -> EditResults

\* A splice that cuts at selection.start twice and so keeps the selected
\* text behind the replacement.
NewContentKeepingSelection(req, result) ==
  IF req.operation = "editSpecificSelection"
  THEN Substring(req.activeContent, 0, req.selection.start) \o result
       \o Substring(req.activeContent, req.selection.start,
                    Len(req.activeContent))
  ELSE result

\* newContent after the await.
NewContent(req, result) ==
  IF req.operation = "editSpecificSelection"
  THEN Substring(req.activeContent, 0, req.selection.start) \o result
       \o Substring(req.activeContent, req.selection.end, Len(req.activeContent))
  ELSE result

DescriptionOf(req) ==
  CASE req.operation = "remixMemory" -> "Visual Remix"
    [] req.operation = "editSpecificSelection" -> "Edited selection"
    [] OTHER -> "Applied changes"

\* The state a Viewer has after it mounts on, or is re-synchronised to, m.
SyncedContent(m) == m.content
SyncedIndex(m) == Len(m.history) - 1

\* Variant of ProcessingAfterFinally: no finally block.
ProcessingWithoutFinally(mounted, current) == current

\* finally { setIsProcessing(false) }: acts on the Viewer that made the call.
ProcessingAfterFinally(mounted, current) == IF mounted THEN FALSE ELSE current

\* ------------------------------------------------------------- the canvas
\* viewport.scale is kept in thousandths, viewport.x and viewport.y in
\* sixtieths of a pixel (the centroid of up to six records is exact).
ScaleUnit == 1000
OffsetUnit == 60
ScreenCenterX == 600
ScreenCenterY == 400

RECURSIVE SumOf(_, _)
SumOf(list, field) ==
  IF list = <<>> THEN 0 ELSE Head(list)[field] + SumOf(Tail(list), field)

\* centerViewport: the viewport that puts the centroid of the records (or
\* the point (400, 300) of an empty canvas) at the screen centre, scale 1.
CenteredViewport(list) ==
  IF list = <<>>
  THEN [x |-> OffsetUnit * (ScreenCenterX - 400),
        y |-> OffsetUnit * (ScreenCenterY - 300), scale |-> ScaleUnit]
  ELSE [x |-> OffsetUnit * ScreenCenterX
                - (OffsetUnit \div Len(list)) * SumOf(list, "x"),
        y |-> OffsetUnit * ScreenCenterY
                - (OffsetUnit \div Len(list)) * SumOf(list, "y"),
        scale |-> ScaleUnit]

\* The SpatialCanvas after its mount effect on the list it was first
\* rendered with.  The Shell's list starts as [] (useState([])) and the load
\* effect's setMemories takes effect in a later render, so the mount effect,
\* which has no dependencies, always runs centerViewport on the empty list.
CenteredCanvas(list) ==
  [viewport |-> CenteredViewport(list), isPanning |-> FALSE,
   draggedNodeId |-> 0, contextMenu |-> 0, pointer |-> "idle", moves |-> 0]

\* ------------------------------------------------------------------- Init
ViewerClosed ==
  /\ activeMemory = NoMemory
  /\ activeContent = <<>>
  /\ agentPrompt = ""
  /\ isProcessing = FALSE
  /\ historyIndex = -1
  /\ selection = NoSelection

Init ==
  /\ memories \in SavedLists
  /\ ViewerClosed
  /\ appIsProcessing = FALSE
  /\ cmdPending = 0
  /\ chatHistory = <<>>
  /\ now = 0
  /\ pending = <<>>
  /\ ev = NoEvent
  /\ svc = NoCall
  /\ storage = Serialize(memories)
  /\ canvas = CenteredCanvas(<<>>)
  /\ drops = <<>>

\* A session whose stored list holds the eight-character note.
InitNote ==
  /\ memories = <<SavedNote>>
  /\ ViewerClosed
  /\ appIsProcessing = FALSE
  /\ cmdPending = 0
  /\ chatHistory = <<>>
  /\ now = 0
  /\ pending = <<>>
  /\ ev = NoEvent
  /\ svc = NoCall
  /\ storage = Serialize(memories)
  /\ canvas = CenteredCanvas(<<>>)
  /\ drops = <<>>

\* ---------------------------------------------------------------- actions
\* The AI calls that are awaited.
InFlight == Len(pending) + cmdPending

\* SpatialCanvas onMemoryClick(memory) -> setActiveMemory(memory): the Viewer
\* mounts.  The modal covers the canvas, so a node is clicked only while no
\* Viewer is open.
OpenMemory(k) ==
  /\ ~ViewerOpen
  /\ k \in 1..Len(memories)
  /\ activeMemory' = memories[k]
  /\ activeContent' = SyncedContent(memories[k])
  /\ historyIndex' = SyncedIndex(memories[k])
  /\ selection' = NoSelection
  /\ agentPrompt' = ""
  /\ isProcessing' = FALSE
  /\ ev' = NoEvent
  /\ UNCHANGED <<memories, appIsProcessing, cmdPending, chatHistory, now, pending, svc,
                 storage, canvasVars>>

\* onClose -> setActiveMemory(null): the Viewer unmounts; the calls it made
\* stay in flight and their state setters no longer act on a mounted Viewer.
CloseViewer ==
  /\ ViewerOpen
  /\ activeMemory' = NoMemory
  /\ activeContent' = <<>>
  /\ agentPrompt' = ""
  /\ isProcessing' = FALSE
  /\ historyIndex' = -1
  /\ selection' = NoSelection
  /\ pending' = [k \in 1..Len(pending) |-> [pending[k] EXCEPT !.mounted = FALSE]]
  /\ ev' = NoEvent
  /\ UNCHANGED <<memories, appIsProcessing, cmdPending, chatHistory, now, svc, storage, canvasVars>>

\* onChange of the instruction field.
TypePrompt(p) ==
  /\ ViewerOpen
  /\ p \in Prompts
  /\ p # agentPrompt
  /\ agentPrompt' = p
  /\ ev' = NoEvent
  /\ UNCHANGED <<shellVars, activeContent, isProcessing, historyIndex,
                 selection, pending, svc, storage, canvasVars>>

\* handleAgentAction up to its await.
handleAgentAction ==
  IF Trim(agentPrompt) = ""
  THEN UNCHANGED vars
  ELSE /\ InFlight < MaxTime - now
       /\ isProcessing' = TRUE
       /\ pending' = Append(pending,
            NewRequest(activeMemory, activeContent, selection))
       /\ ev' = [op |-> "submit", mounted |-> FALSE]
       /\ UNCHANGED <<shellVars, activeContent, agentPrompt, historyIndex,
                      selection, svc, storage, canvasVars>>

\* The Execute button: disabled={isProcessing}, inside the bar that has
\* pointer-events-none while an old version is shown.
ClickExecute ==
  /\ ViewerOpen
  /\ ~isProcessing
  /\ isCurrentVersion
  /\ handleAgentAction

\* onKeyDown of the instruction field: e.key === 'Enter' && handleAgentAction().
\* The field is not disabled and keeps (or gets, by Tab) the keyboard focus;
\* pointer-events-none stops the mouse only.
PressEnter ==
  /\ ViewerOpen
  /\ handleAgentAction

\* onUpdate of the Shell: setMemories(prev => prev.map(...)) and
\* setActiveMemory(updated); then the Viewer's effect on [memory.id,
\* memory.updatedAt] re-synchronises it (a closed Viewer mounts afresh).
OnUpdate(updated, callerMounted, promptAfter, processingAfter) ==
  /\ memories' = ReplaceById(memories, updated)
  /\ activeMemory' = updated
  /\ activeContent' = SyncedContent(updated)
  /\ historyIndex' = SyncedIndex(updated)
  /\ selection' = NoSelection
  /\ storage' = Serialize(memories')
  /\ agentPrompt' = IF ~ViewerOpen THEN "" ELSE promptAfter
  /\ isProcessing' = IF ~ViewerOpen THEN FALSE ELSE processingAfter

\* The awaited AI operation of pending[i] resolves with result: the rest of
\* the try block, then finally.
ResolveAgentAction(i, result) ==
  /\ i \in 1..Len(pending)
  /\ result \in ResultsOf(pending[i])
  /\ now < MaxTime
  /\ LET req == pending[i]
         updated == UpdatedMemory(req.memory, NewContent(req, result),
                                  DescriptionOf(req), "gemini", now + 1)
     IN /\ OnUpdate(updated, req.mounted,
                    IF req.mounted THEN "" ELSE agentPrompt,
                    ProcessingAfterFinally(req.mounted, isProcessing))
        /\ ev' = [op |-> "edit", mounted |-> req.mounted]
  /\ now' = now + 1
  /\ pending' = RemoveAt(pending, i)
  /\ UNCHANGED <<appIsProcessing, cmdPending, chatHistory, svc, canvasVars>>

\* The awaited AI operation of pending[i] throws: catch (console.error,
\* alert), then finally.
RejectAgentAction(i) ==
  /\ i \in 1..Len(pending)
  /\ isProcessing' = ProcessingAfterFinally(pending[i].mounted, isProcessing)
  /\ pending' = RemoveAt(pending, i)
  /\ ev' = [op |-> "editFailed", mounted |-> pending[i].mounted]
  /\ UNCHANGED <<shellVars, activeContent, agentPrompt, historyIndex,
                 selection, svc, storage, canvasVars>>

\* A restore that also gives the memory the type its restored content fits.
RestoredMemoryWithType(memory, restoredContent, t) ==
  [UpdatedMemory(memory, restoredContent, "Restored version", "user", t)
     EXCEPT !.type = IF restoredContent # <<>> /\ Head(restoredContent) = "<"
                     THEN "DOCUMENT" ELSE "TEXT"]

\* The updatedMemory object of handleRestoreVersion: {...memory, content,
\* thumbnail, updatedAt, history: [...memory.history, newDiff]}, newDiff by
\* 'user' with the restored content.
RestoredMemory(memory, restoredContent, t) ==
  UpdatedMemory(memory, restoredContent, "Restored version", "user", t)

\* handleRestoreVersion; the RESTORE button is rendered while
\* !isCurrentVersion.
handleRestoreVersion ==
  /\ ViewerOpen
  /\ ~isCurrentVersion
  /\ now < MaxTime
  /\ OnUpdate(RestoredMemory(activeMemory, activeContent, now + 1),
              TRUE, agentPrompt, isProcessing)
  /\ now' = now + 1
  /\ ev' = [op |-> "restore", mounted |-> FALSE]
  /\ UNCHANGED <<appIsProcessing, cmdPending, chatHistory, pending, svc, canvasVars>>

\* What handleHistoryClick(idx) puts on display: the entry's content, the
\* memory's content, or nothing new.
HistoryClickTarget(memory, idx) ==
  LET item == memory.history[idx + 1]
  IN IF Truthy(item.content) THEN "entry"
     ELSE IF idx = 0 /\ ~Truthy(item.content) /\ Len(memory.history) = 1
          THEN "memory"
          ELSE "none"

handleHistoryClick(idx) ==
  /\ ViewerOpen
  /\ idx \in 0..(Len(activeMemory.history) - 1)
  /\ LET target == HistoryClickTarget(activeMemory, idx)
     IN IF target = "none"
        THEN UNCHANGED <<activeContent, historyIndex, selection>>
        ELSE /\ activeContent' =
                  IF target = "entry"
                  THEN activeMemory.history[idx + 1].content
                  ELSE activeMemory.content
             /\ historyIndex' = idx
             /\ selection' = NoSelection
  /\ ev' = [op |-> "historyClick", mounted |-> FALSE]
  /\ UNCHANGED <<shellVars, agentPrompt, isProcessing, pending, svc, storage,
                 canvasVars>>

\* handleSelection on the read-only textarea (text view): start and end are
\* the textarea's selectionStart and selectionEnd.
handleSelection(start, end) ==
  /\ ViewerOpen
  /\ activeMemory.type = "TEXT"
  /\ activeContent # UNDEF
  /\ 0 <= start /\ start <= end /\ end <= Len(activeContent)
  /\ selection' =
       IF start # end
       THEN [start |-> start, end |-> end,
             text |-> Substring(activeContent, start, end)]
       ELSE NoSelection
  /\ selection' # selection
  /\ ev' = NoEvent
  /\ UNCHANGED <<shellVars, activeContent, agentPrompt, isProcessing,
                 historyIndex, pending, svc, storage, canvasVars>>

\* ------------------------------------------- the Viewer's format conversions
\* Instructions that hold a conversion phrase, in several spellings.
ConversionPrompts ==
  {"Convert to PDF", "make this a pdf", "convert to doc", "Make This A Doc",
   "convert to video", "MAKE THIS MP4", "please Convert To Text"}

\* agentPrompt.toLowerCase()
promptLower(p) ==
  CASE p = "Convert to PDF" -> "convert to pdf"
    [] p = "Make This A Doc" -> "make this a doc"
    [] p = "MAKE THIS MP4" -> "make this mp4"
    [] p = "please Convert To Text" -> "please convert to text"
    [] OTHER -> p

\* The branch of the conversion logic that promptLower.includes(...) selects,
\* in the order of the code; "none" is the AI editing branch.
Conversion(p) ==
  LET lower == promptLower(p)
  IN CASE lower \in {"convert to pdf", "make this a pdf"} -> "pdf"
       [] lower \in {"convert to doc", "make this a doc"} -> "doc"
       [] lower \in {"convert to video", "make this mp4"} -> "video"
       [] lower \in {"please convert to text"} -> "text"
       [] OTHER -> "none"

\* newType of each conversion.
ConvertedType(conversion) ==
  CASE conversion \in {"pdf", "doc"} -> "DOCUMENT"
    [] conversion = "video" -> "VIDEO"
    [] OTHER -> "TEXT"

\* activeContent.replace(/(<([^>]+)>)/gi, ""): the markup characters go.
RECURSIVE StripTags(_)
StripTags(content) ==
  IF content = <<>> THEN <<>>
  ELSE (IF Head(content) \in {"<", ">"} THEN <<>> ELSE <<Head(content)>>)
       \o StripTags(Tail(content))

\* newContent of each conversion: the PDF's base64 data, the content wrapped
\* in markup unless it is wrapped already, the content as it is, the content
\* without its markup.
ConvertedContent(conversion, content) ==
  CASE conversion = "pdf" -> <<"p">>
    [] conversion = "doc" ->
         IF content # <<>> /\ Head(content) = "<" THEN content
         ELSE <<"<">> \o content \o <<">">>
    [] conversion = "video" -> content
    [] OTHER -> StripTags(content)

\* The updatedMemory object of the later Viewer: the type is updated too,
\* and the thumbnail follows the new type.
ConvertedMemory(memory, newType, newContent, description, t) ==
  [memory EXCEPT
     !.type = newType,
     !.content = newContent,
     !.thumbnail = IF newType = "IMAGE" THEN newContent ELSE memory.thumbnail,
     !.updatedAt = t,
     !.history = AppendDiff(memory.history,
                   [description |-> description, content |-> newContent,
                    author |-> "gemini"])]

\* onChange of the instruction field, for an instruction with a conversion
\* phrase.
TypeConversion(p) ==
  /\ ViewerOpen
  /\ p # agentPrompt
  /\ agentPrompt' = p
  /\ ev' = NoEvent
  /\ UNCHANGED <<shellVars, activeContent, isProcessing, historyIndex,
                 selection, pending, svc, storage, canvasVars>>

\* handleAgentAction of the later Viewer on an instruction with a conversion
\* phrase: no branch awaits, so the handler runs to its finally in one go.
\* byEnter: the field's onKeyDown; otherwise the Execute button.
handleConversion(byEnter) ==
  /\ ViewerOpen
  /\ Conversion(agentPrompt) # "none"
  /\ byEnter \/ (~isProcessing /\ isCurrentVersion)
  /\ activeContent # UNDEF
  /\ now < MaxTime
  /\ LET conversion == Conversion(agentPrompt)
     IN /\ OnUpdate(ConvertedMemory(activeMemory, ConvertedType(conversion),
                                    ConvertedContent(conversion, activeContent),
                                    "Converted", now + 1),
                    TRUE, "", FALSE)
        /\ ev' = [op |-> "convert", mounted |-> FALSE, conversion |-> conversion]
  /\ now' = now + 1
  /\ UNCHANGED <<appIsProcessing, cmdPending, chatHistory, pending, svc,
                 canvasVars>>

\* ------------------------------------------------ the Viewer's spreadsheets
\* A spreadsheet payload is a content that starts with '{' (for
\* '{"appType":"spreadsheet"'); the characters after it are its sheets.
NoSheets == <<"null">>

\* The parse of the sync effect: the payload's sheets, or null.
SheetsOf(type, content) ==
  IF type = "DOCUMENT" /\ content # UNDEF /\ content # <<>>
     /\ Head(content) = "{"
  THEN <<"sheets", Tail(content)>>
  ELSE NoSheets

\* parsedSpreadsheet: set by the sync effect alone, from memory.content,
\* whenever memory.id, memory.updatedAt or memory.content changes.
parsedSpreadsheet == SheetsOf(activeMemory.type, activeMemory.content)

\* renderContent in preview mode: the sheets whose tabs and HTML are shown,
\* NoSheets when the content is shown as a picture or as one document.
RenderedSheets ==
  IF activeMemory.type = "DOCUMENT" THEN parsedSpreadsheet ELSE NoSheets

\* A stored workbook that was edited once: it had the sheet 's', it has the
\* sheets 't' and 'u'.
SavedSheet ==
  [id |-> 1, type |-> "DOCUMENT", content |-> <<"{", "t", "u">>,
   thumbnail |-> <<>>, updatedAt |-> 0, tags |-> <<>>,
   history |-> <<ImportEntry(<<"{", "s">>),
                 [description |-> "Applied changes",
                  content |-> <<"{", "t", "u">>, author |-> "gemini"]>>,
   x |-> 200, y |-> 200]

\* -------------------------------------- selections in the rendered document
\* A stored document that was edited once.
SavedDoc ==
  [id |-> 1, type |-> "DOCUMENT", content |-> <<"<", "h", "i", ">">>,
   thumbnail |-> <<>>, updatedAt |-> 0, tags |-> <<>>,
   history |-> <<ImportEntry(<<"<", "h", ">">>),
                 [description |-> "Applied changes",
                  content |-> <<"<", "h", "i", ">">>, author |-> "gemini"]>>,
   x |-> 200, y |-> 200]

\* window.getSelection().toString() over the rendered document: text of the
\* content, text the markup only renders, or '' for a collapsed selection.
WindowSelections == {<<"h", "i">>, <<"&">>, <<>>}

\* An index search that answers 0 when the text does not occur.
IndexOfOrStart(content, text) ==
  IF \E k \in 0..(Len(content) - Len(text)) :
       Substring(content, k, k + Len(text)) = text
  THEN CHOOSE k \in 0..(Len(content) - Len(text)) :
         /\ Substring(content, k, k + Len(text)) = text
         /\ \A j \in 0..(k - 1) : Substring(content, j, j + Len(text)) # text
  ELSE 0
\* activeContent.indexOf(text)
IndexOf(content, text) ==
  IF \E k \in 0..(Len(content) - Len(text)) :
       Substring(content, k, k + Len(text)) = text
  THEN CHOOSE k \in 0..(Len(content) - Len(text)) :
         /\ Substring(content, k, k + Len(text)) = text
         /\ \A j \in 0..(k - 1) : Substring(content, j, j + Len(text)) # text
  ELSE -1

\* handleSelection on the rendered document (onMouseUp of the HTML view).
handleWindowSelection(text) ==
  /\ ViewerOpen
  /\ activeMemory.type = "DOCUMENT"
  /\ activeContent # UNDEF
  /\ IF text = <<>>
     THEN selection' = NoSelection
     ELSE LET start == IndexOf(activeContent, text)
          IN IF start # -1
             THEN selection' =
                    [start |-> start, end |-> start + Len(text), text |-> text]
             ELSE UNCHANGED selection
  /\ ev' = [op |-> "windowSelection", mounted |-> FALSE, text |-> text]
  /\ UNCHANGED <<shellVars, activeContent, agentPrompt, isProcessing,
                 historyIndex, pending, svc, storage, canvasVars>>

\* --------------------------------------------------------- the command bar
\* What runAgenticCommand may return to handleCommand.
AgentResponses ==
  {[type |-> "chat", id |-> 0, memoryType |-> "", content |-> <<>>,
    layout |-> <<>>, sourceIds |-> <<>>,
    tags |-> <<>>],
   [type |-> "move", id |-> 0, memoryType |-> "", content |-> <<>>,
    layout |-> <<>>, sourceIds |-> <<>>,
    tags |-> <<>>]}
  \cup {[type |-> "update", id |-> i, memoryType |-> "", content |-> <<"b">>,
          layout |-> <<>>, sourceIds |-> <<>>,
    tags |-> <<>>]
          : i \in 1..MaxMem}
  \cup {[type |-> "create", id |-> 0, memoryType |-> t, content |-> <<"b">>,
          layout |-> <<>>, sourceIds |-> <<>>,
    tags |-> <<>>]
          : t \in {"IMAGE", "TEXT", ""}}

\* A move result that places memory 1 at the origin.
LayoutResponses ==
  {[type |-> "move", id |-> 0, memoryType |-> "", content |-> <<>>,
    layout |-> <<[id |-> 1, x |-> 0, y |-> 0]>>, sourceIds |-> <<>>,
    tags |-> <<>>]}

\* handleCommand up to its await (a non-empty, non-reset command).
CommandSubmit ==
  /\ InFlight < MaxTime - now
  /\ appIsProcessing' = TRUE
  /\ cmdPending' = cmdPending + 1
  /\ ev' = NoEvent
  /\ UNCHANGED <<memories, activeMemory, chatHistory, now, viewerVars, svc,
                 storage, canvasVars>>

\* The update branch: the record named by result.id gets the new content
\* and one more history entry; every other field is spread from m.
AgentUpdated(m, result, t) ==
  [m EXCEPT
     !.content = result.content,
     !.updatedAt = t,
     !.history = AppendDiff(m.history,
                   [description |-> "agent reasoning",
                    content |-> result.content, author |-> "gemini"])]

\* result.tags || ['agent-created']: an array, empty or not, is truthy.
AgentTags(result) ==
  IF result.tags = UNDEF THEN <<"agent-created">> ELSE result.tags

\* memories.filter(m => result.sourceIds.includes(m.id))
RECURSIVE Sources(_, _)
Sources(list, sourceIds) ==
  IF list = <<>> THEN <<>>
  ELSE (IF \E k \in 1..Len(sourceIds) : sourceIds[k] = Head(list).id
        THEN <<Head(list)>> ELSE <<>>) \o Sources(Tail(list), sourceIds)

\* sum / n in whole pixels, rounded up: with a jitter of -60..59 whole
\* pixels added, the result is a position that sum / n + jitter() can take
\* (jitter() is in [-60, 60)).
Mean(sum, n) == -((-sum) \div n)

\* targetX, targetY of the create branch: the centre of the screen, or the
\* centroid of the cited records the list holds, offset by (100, 50).
CreateTarget(result, list) ==
  LET sources == Sources(list, result.sourceIds)
  IN IF Len(result.sourceIds) > 0 /\ Len(sources) > 0
     THEN [x |-> Mean(SumOf(sources, "x"), Len(sources)) + 100,
           y |-> Mean(SumOf(sources, "y"), Len(sources)) + 50]
     ELSE [x |-> 600, y |-> 400]

\* The create branch's newMemory.
AgentCreated(result, list, id, t) ==
  LET newType == IF result.memoryType = "" THEN "TEXT" ELSE result.memoryType
      target == CreateTarget(result, list)
  IN [id |-> id, type |-> newType, content |-> result.content,
      thumbnail |-> IF newType = "IMAGE" THEN result.content ELSE <<>>,
      updatedAt |-> t, tags |-> AgentTags(result),
      history |-> <<[description |-> "Created by Agent",
                     content |-> result.content, author |-> "gemini"]>>,
      x |-> target.x, y |-> target.y]

\* The ids a result names: result.id of an update, the ids of a move's
\* layout items.
Named(result) ==
  CASE result.type = "update" -> {result.id}
    [] result.type = "move" ->
         {result.layout[k].id : k \in 1..Len(result.layout)}
    [] OTHER -> {}

\* A move that puts every record at the first layout item.
AgentMovedToFirstTarget(m, layout) ==
  IF layout # <<>> THEN [m EXCEPT !.x = layout[1].x, !.y = layout[1].y] ELSE m

\* The move branch: a record named in result.layout takes the position of
\* its first layout item.
AgentMoved(m, layout) ==
  IF \E k \in 1..Len(layout) : layout[k].id = m.id
  THEN LET target ==
             layout[CHOOSE k \in 1..Len(layout) :
                      /\ layout[k].id = m.id
                      /\ \A j \in 1..(k - 1) : layout[j].id # m.id]
       IN [m EXCEPT !.x = target.x, !.y = target.y]
  ELSE m

\* crypto.randomUUID(): an id no record has had (the saved lists use 1 and
\* 2; every creation reads the clock, t is that reading).
FreshId(t) == 2 + t

\* handleCommand after its await.
CommandResult(result) ==
  /\ cmdPending > 0
  /\ CASE result.type = "update" ->
            /\ result.id \in IdsOf(memories) => now < MaxTime
            /\ now' = IF result.id \in IdsOf(memories) THEN now + 1 ELSE now
            /\ memories' =
                 [k \in 1..Len(memories) |->
                    IF memories[k].id = result.id
                    THEN AgentUpdated(memories[k], result, now + 1)
                    ELSE memories[k]]
       [] result.type = "create" ->
            /\ now < MaxTime
            /\ Len(memories) < MaxMem
            /\ now' = now + 1
            /\ memories' =
                 Append(memories,
                        AgentCreated(result, memories, FreshId(now + 1),
                                     now + 1))
       [] result.type = "move" ->
            /\ memories' =
                 [k \in 1..Len(memories) |->
                    AgentMoved(memories[k], result.layout)]
            /\ now' = now
       [] OTHER -> UNCHANGED <<memories, now>>
  /\ appIsProcessing' = FALSE
  /\ cmdPending' = cmdPending - 1
  /\ ev' = [op |-> result.type, mounted |-> FALSE,
            stray |-> /\ Named(result) # {}
                      /\ Named(result) \cap IdsOf(memories) = {}]
  /\ storage' = Serialize(memories')
  /\ UNCHANGED <<activeMemory, chatHistory, viewerVars, svc, canvasVars>>

\* -------------------------------------------------------- Agent Chat Panel
\* What the panel hands to onCommand: its field's text, or the prompt of a
\* quick-action button.
PanelInputs == {"", " ", "fix", "Sort Canvas"}

\* handleAgentCommand's newMem of the three-pane layout.
PanelCreated(result, id, t) ==
  [id |-> id, type |-> result.memoryType, content |-> result.content,
   thumbnail |-> IF result.memoryType = "IMAGE" THEN result.content ELSE <<>>,
   updatedAt |-> t, tags |-> AgentTags(result),
   history |-> <<[description |-> "Generated by Agent",
                  content |-> result.content, author |-> "gemini"]>>,
   x |-> 600, y |-> 400]

\* The commands the transcript holds: its 'user' entries.
Commands(history) ==
  Cardinality({k \in 1..Len(history) : history[k].role = "user"})

\* handleAgentCommand up to its await: Enter, the send button or a
\* quick-action button called onCommand(input).
AgentCommandSubmit(input) ==
  /\ Commands(chatHistory) < MaxTime
  /\ IF Trim(input) = ""
     THEN /\ UNCHANGED <<appIsProcessing, cmdPending, chatHistory>>
          /\ ev' = [op |-> "panelEmpty", mounted |-> FALSE]
     ELSE /\ appIsProcessing' = TRUE
          /\ chatHistory' =
               Append(chatHistory, [role |-> "user", text |-> input])
          /\ cmdPending' = cmdPending + 1
          /\ ev' = [op |-> "panelSubmit", mounted |-> FALSE]
  /\ UNCHANGED <<memories, activeMemory, now, viewerVars, svc, storage,
                 canvasVars>>

\* handleAgentCommand after its await.
AgentCommandResult(result) ==
  /\ cmdPending > 0
  /\ CASE result.type = "chat" ->
            /\ chatHistory' =
                 Append(chatHistory, [role |-> "model", text |-> "message"])
            /\ UNCHANGED <<memories, now>>
       [] result.type = "create" ->
            /\ now < MaxTime
            /\ Len(memories) < MaxMem
            /\ now' = now + 1
            /\ chatHistory' =
                 Append(chatHistory, [role |-> "model", text |-> "generated"])
            /\ memories' =
                 <<PanelCreated(result, FreshId(now + 1), now + 1)>> \o memories
       [] OTHER -> UNCHANGED <<memories, now, chatHistory>>
  /\ appIsProcessing' = FALSE
  /\ cmdPending' = cmdPending - 1
  /\ ev' = [op |-> "panelResult", mounted |-> FALSE, kind |-> result.type]
  /\ storage' = Serialize(memories')
  /\ UNCHANGED <<activeMemory, viewerVars, svc, canvasVars>>

\* ----------------------------------------------------- canvas connections
Min(a, b) == IF a < b THEN a ELSE b
Max(a, b) == IF a > b THEN a ELSE b

Tags == {"ai", "note"}
TagLists == UNION {[1..n -> Tags] : n \in 0..MaxTags}
\* The memories drawn on the canvas, as far as the connections read them:
\* the record at position k has id k and its own metadata.tags.
TaggedLists == UNION {[1..n -> TagLists] : n \in 0..MaxMem}

\* m1.metadata.tags.filter(t => m2.metadata.tags.includes(t))
RECURSIVE Common(_, _)
Common(tags1, tags2) ==
  IF tags1 = <<>> THEN <<>>
  ELSE (IF \E k \in 1..Len(tags2) : tags2[k] = Head(tags1)
        THEN <<Head(tags1)>> ELSE <<>>) \o Common(Tail(tags1), tags2)

\* Math.min(common.length, 3)
Strength(tags1, tags2) == Min(Len(Common(tags1, tags2)), 3)

\* The two loops of the connections memo, from the pair (i, j) on.
RECURSIVE ConnectionsFrom(_, _, _)
ConnectionsFrom(list, i, j) ==
  IF i > Len(list) THEN <<>>
  ELSE IF j > Len(list) THEN ConnectionsFrom(list, i + 1, i + 2)
  ELSE (IF Len(Common(list[i], list[j])) > 0
        THEN <<[fromId |-> i, toId |-> j,
                strength |-> Strength(list[i], list[j])]>>
        ELSE <<>>) \o ConnectionsFrom(list, i, j + 1)

connections(list) == ConnectionsFrom(list, 1, 2)

\* The canvas renders a memory list and computes its connections.
RenderConnections(list) ==
  /\ svc = NoCall
  /\ svc' = [fn |-> "connections", input |-> list,
             result |-> connections(list)]
  /\ UNCHANGED <<shellVars, viewerVars, ev, storage, canvasVars>>

\* ------------------------------------------------------------ the Library
\* The records the Library reads are those of TaggedLists, all with the title
\* 'T' and the same updatedAt, so the sort keeps their order.
SearchQueries == {"", "ai"}
\* filterTag: a tag, or '' for null.
FilterTags == {""} \cup Tags

\* t.toLowerCase().includes(searchQuery.toLowerCase()) on these tags and
\* queries; the title 'T' includes the empty query only.
TextIncludes(text, query) == query = "" \/ text = query

\* filteredMemories: the records that match the search text by title or by
\* a tag, then those that carry filterTag.
RECURSIVE filteredMemories(_, _, _)
filteredMemories(list, searchQuery, filterTag) ==
  IF list = <<>> THEN <<>>
  ELSE LET tags == Head(list)
           matches ==
             /\ \/ TextIncludes("T", searchQuery)
                \/ \E k \in 1..Len(tags) : TextIncludes(tags[k], searchQuery)
             /\ filterTag # "" => \E k \in 1..Len(tags) : tags[k] = filterTag
       IN (IF matches THEN <<tags>> ELSE <<>>)
          \o filteredMemories(Tail(list), searchQuery, filterTag)

\* memories.flatMap(m => m.metadata.tags)
RECURSIVE FlatTags(_)
FlatTags(list) ==
  IF list = <<>> THEN <<>> ELSE Head(list) \o FlatTags(Tail(list))

\* Array.from(new Set(tags)): the first appearance of each tag, in order.
RECURSIVE Distinct(_)
Distinct(tags) ==
  IF tags = <<>> THEN <<>>
  ELSE LET front == Distinct(SubSeq(tags, 1, Len(tags) - 1))
           last == tags[Len(tags)]
       IN IF \E k \in 1..Len(front) : front[k] = last THEN front
          ELSE Append(front, last)

ChipLimit == 10

\* LibraryPanel's allTags of the list it is given.
allTags(list) ==
  LET distinct == Distinct(FlatTags(list))
  IN SubSeq(distinct, 1, Min(ChipLimit, Len(distinct)))

\* The Shell renders the Library: LibraryPanel gets filteredMemories.
RenderLibrary(list, searchQuery, filterTag) ==
  /\ svc = NoCall
  /\ svc' = [fn |-> "library", input |-> list, searchQuery |-> searchQuery,
             filterTag |-> filterTag,
             result |-> allTags(filteredMemories(list, searchQuery,
                                                 filterTag))]
  /\ UNCHANGED <<shellVars, viewerVars, ev, storage, canvasVars>>

\* --------------------------------------------------------- canvas actions
\* Math.min(Math.max(0.2, scale), 4), in thousandths.
MinScale == 200
MaxScale == 4000
ZoomStep == 200
\* The wheel zoom without its clamp.
UnclampedScale(scale) == scale
ClampScale(scale) == Min(Max(MinScale, scale), MaxScale)

\* e.deltaY of a wheel event (pixels; times zoomSensitivity it is thousandths
\* of scale): a notch or a fling, either way.
WheelDeltas == {-100000, -400, 400, 100000}

\* movementX / scale and movementY / scale of a mouse-move event.
Moves == {<<10, 0>>, <<0, -10>>, <<-10, 10>>}

\* The canvas receives mouse events only while the Viewer modal is closed.
CanvasIdle == ~ViewerOpen /\ canvas.pointer = "idle"

\* handleUpdateMemoryPosition
Repositioned(list, id, x, y) ==
  [k \in 1..Len(list) |->
     IF list[k].id = id THEN [list[k] EXCEPT !.x = x, !.y = y] ELSE list[k]]

\* prev.filter(m => m.id !== id)
RECURSIVE Without(_, _)
Without(list, id) ==
  IF list = <<>> THEN <<>>
  ELSE IF Head(list).id = id THEN Without(Tail(list), id)
       ELSE <<Head(list)>> \o Without(Tail(list), id)

\* handleWheel
handleWheel(deltaY) ==
  /\ CanvasIdle
  /\ canvas' = [canvas EXCEPT
                  !.contextMenu = 0,
                  !.viewport.scale = ClampScale(canvas.viewport.scale - deltaY)]
  /\ ev' = NoEvent
  /\ UNCHANGED <<shellVars, viewerVars, svc, storage, drops>>

\* The zoom buttons and the recenter button of the HUD.
ZoomIn ==
  /\ CanvasIdle
  /\ canvas' = [canvas EXCEPT
                  !.viewport.scale = Min(canvas.viewport.scale + ZoomStep,
                                         MaxScale)]
  /\ ev' = NoEvent
  /\ UNCHANGED <<shellVars, viewerVars, svc, storage, drops>>

ZoomOut ==
  /\ CanvasIdle
  /\ canvas' = [canvas EXCEPT
                  !.viewport.scale = Max(canvas.viewport.scale - ZoomStep,
                                         MinScale)]
  /\ ev' = NoEvent
  /\ UNCHANGED <<shellVars, viewerVars, svc, storage, drops>>

centerViewport ==
  /\ CanvasIdle
  /\ canvas' = [canvas EXCEPT !.viewport = CenteredViewport(memories)]
  /\ ev' = NoEvent
  /\ UNCHANGED <<shellVars, viewerVars, svc, storage, drops>>

\* handleMouseDown on the background, left button: the context menu closes
\* and panning starts.
handleMouseDown ==
  /\ CanvasIdle
  /\ canvas' = [canvas EXCEPT
                  !.contextMenu = 0,
                  !.isPanning = (canvas.draggedNodeId = 0),
                  !.pointer = "down"]
  /\ ev' = NoEvent
  /\ UNCHANGED <<shellVars, viewerVars, svc, storage, drops>>

\* handleNodeMouseDown, left button: stopPropagation, setDraggedNodeId(id).
handleNodeMouseDown(k) ==
  /\ CanvasIdle
  /\ k \in 1..Len(memories)
  /\ canvas' = [canvas EXCEPT
                  !.draggedNodeId = memories[k].id,
                  !.pointer = "nodeDown"]
  /\ ev' = NoEvent
  /\ UNCHANGED <<shellVars, viewerVars, svc, storage, drops>>

\* handleMouseMove while a button is held: the viewport pans, or the dragged
\* node takes its new position through onUpdateMemoryPosition.
handleMouseMove(move) ==
  /\ ~ViewerOpen
  /\ canvas.pointer \in {"down", "nodeDown", "moved", "nodeMoved"}
  /\ canvas.moves < MaxMoves
  /\ IF canvas.isPanning
     THEN /\ canvas' = [canvas EXCEPT
                         !.viewport.x = @ + OffsetUnit * move[1],
                         !.viewport.y = @ + OffsetUnit * move[2],
                         !.pointer = "moved",
                         !.moves = @ + 1]
          /\ UNCHANGED <<memories, storage>>
     ELSE /\ canvas' = [canvas EXCEPT
                         !.pointer = IF canvas.draggedNodeId # 0
                                     THEN "nodeMoved" ELSE "moved",
                         !.moves = @ + 1]
          /\ memories' =
               IF canvas.draggedNodeId \in IdsOf(memories)
               THEN LET memory == MemoryById(memories, canvas.draggedNodeId)
                    IN Repositioned(memories, memory.id,
                                    memory.x + move[1], memory.y + move[2])
               ELSE memories
          /\ storage' = Serialize(memories')
  /\ ev' = NoEvent
  /\ UNCHANGED <<activeMemory, appIsProcessing, cmdPending, chatHistory, now, viewerVars,
                 svc, drops>>

\* handleMouseUp: the button is released over the canvas.
handleMouseUp ==
  /\ ~ViewerOpen
  /\ canvas.pointer \in {"down", "nodeDown", "moved", "nodeMoved"}
  /\ canvas' = [canvas EXCEPT
                  !.isPanning = FALSE,
                  !.draggedNodeId = 0,
                  !.pointer = CASE canvas.pointer = "nodeDown" -> "nodeUp"
                                [] canvas.pointer = "nodeMoved" -> "nodeUpMoved"
                                [] OTHER -> "idle"]
  /\ ev' = NoEvent
  /\ UNCHANGED <<shellVars, viewerVars, svc, storage, drops>>

\* onMouseLeave={handleMouseUp}: the pointer leaves the canvas with the
\* button held; no click follows.
handleMouseLeave ==
  /\ ~ViewerOpen
  /\ canvas.pointer \in {"down", "nodeDown", "moved", "nodeMoved"}
  /\ canvas' = [canvas EXCEPT
                  !.isPanning = FALSE,
                  !.draggedNodeId = 0,
                  !.pointer = "idle"]
  /\ ev' = NoEvent
  /\ UNCHANGED <<shellVars, viewerVars, svc, storage, drops>>

\* The click event that follows mouse-up on the node k the button went down
\* on: MemoryCard onClick -> if (!draggedNodeId) onMemoryClick(memory).  The
\* handler is the one rendered after handleMouseUp.
NodeClick(k) ==
  /\ ~ViewerOpen
  /\ canvas.pointer \in {"nodeUp", "nodeUpMoved"}
  /\ k \in 1..Len(memories)
  /\ canvas' = [canvas EXCEPT !.pointer = "idle"]
  /\ IF canvas.draggedNodeId = 0
     THEN /\ activeMemory' = memories[k]
          /\ activeContent' = SyncedContent(memories[k])
          /\ historyIndex' = SyncedIndex(memories[k])
     ELSE UNCHANGED <<activeMemory, activeContent, historyIndex>>
  /\ ev' = [op |-> IF canvas.pointer = "nodeUp"
                   THEN "click" ELSE "clickAfterDrag",
            mounted |-> FALSE]
  /\ UNCHANGED <<memories, appIsProcessing, cmdPending, chatHistory, now, agentPrompt,
                 isProcessing, selection, pending, svc, storage, drops>>

\* handleContextMenu(e, id) on node k (right button).
handleContextMenu(k) ==
  /\ CanvasIdle
  /\ k \in 1..Len(memories)
  /\ canvas' = [canvas EXCEPT !.contextMenu = memories[k].id]
  /\ ev' = NoEvent
  /\ UNCHANGED <<shellVars, viewerVars, svc, storage, drops>>

\* handleDeleteMemory
handleDeleteMemory(id) ==
  /\ memories' = Without(memories, id)
  /\ storage' = Serialize(memories')

\* 'Delete Permanently' of the context menu.
ContextMenuDelete ==
  /\ CanvasIdle
  /\ canvas.contextMenu # 0
  /\ handleDeleteMemory(canvas.contextMenu)
  /\ canvas' = [canvas EXCEPT !.contextMenu = 0]
  /\ ev' = [op |-> "delete", mounted |-> FALSE, asked |-> FALSE]
  /\ UNCHANGED <<activeMemory, appIsProcessing, cmdPending, chatHistory, now, viewerVars,
                 svc, drops>>

\* The delete button of the Viewer: window.confirm, then the Shell's
\* onDelete -> handleDeleteMemory(id); setActiveMemory(null).
ViewerDelete(confirmed) ==
  /\ ViewerOpen
  /\ IF confirmed
     THEN /\ handleDeleteMemory(activeMemory.id)
          /\ activeMemory' = NoMemory
          /\ activeContent' = <<>>
          /\ agentPrompt' = ""
          /\ isProcessing' = FALSE
          /\ historyIndex' = -1
          /\ selection' = NoSelection
          /\ pending' =
               [k \in 1..Len(pending) |-> [pending[k] EXCEPT !.mounted = FALSE]]
     ELSE UNCHANGED <<memories, storage, activeMemory, viewerVars>>
  /\ ev' = [op |-> IF confirmed THEN "delete" ELSE "deleteDeclined",
            mounted |-> FALSE, asked |-> TRUE]
  /\ UNCHANGED <<appIsProcessing, cmdPending, chatHistory, now, svc, canvasVars>>

\* 'Open Memory' of the context menu.
ContextMenuOpen ==
  /\ CanvasIdle
  /\ canvas.contextMenu # 0
  /\ canvas' = [canvas EXCEPT !.contextMenu = 0]
  /\ IF canvas.contextMenu \in IdsOf(memories)
     THEN LET m == MemoryById(memories, canvas.contextMenu)
          IN /\ activeMemory' = m
             /\ activeContent' = SyncedContent(m)
             /\ historyIndex' = SyncedIndex(m)
     ELSE UNCHANGED <<activeMemory, activeContent, historyIndex>>
  /\ ev' = NoEvent
  /\ UNCHANGED <<memories, appIsProcessing, cmdPending, chatHistory, now, agentPrompt,
                 isProcessing, selection, pending, svc, storage, drops>>

\* ------------------------------------------------------- geminiService
\* An exception that leaves a function body.
Thrown == [threw |-> TRUE]

\* a || b on strings
OrElse(a, b) == IF Truthy(a) THEN a ELSE b

\* A MIME type is <<major, minor>>, a file name <<stem, extension>>.
MimeTypes ==
  {<<"image", "png">>, <<"video", "mp4">>, <<"audio", "mpeg">>,
   <<"application", "pdf">>, <<"text", "plain">>, <<"application", "json">>,
   <<"application", "zip">>}
Filenames == {<<"notes", ".md">>, <<"data", ".bin">>}

StartsWith(mimeType, major) == mimeType[1] = major
Includes(mimeType, word) == \E k \in 1..Len(mimeType) : mimeType[k] = word
EndsWith(filename, ext) == filename[Len(filename)] = ext

isText(mimeType, filename) ==
  \/ StartsWith(mimeType, "text")
  \/ Includes(mimeType, "json")
  \/ Includes(mimeType, "javascript")
  \/ Includes(mimeType, "xml")
  \/ EndsWith(filename, ".md")
  \/ EndsWith(filename, ".ts")
  \/ EndsWith(filename, ".tsx")

\* let type = DOCUMENT; if (isImage) ... else if (isText) type = TEXT
IngestType(mimeType, filename) ==
  IF StartsWith(mimeType, "image") THEN "IMAGE"
  ELSE IF StartsWith(mimeType, "video") THEN "VIDEO"
  ELSE IF StartsWith(mimeType, "audio") THEN "AUDIO"
  ELSE IF isText(mimeType, filename) THEN "TEXT"
  ELSE "DOCUMENT"

\* The text of a model response: absent, empty, not JSON, the JSON null, or
\* a JSON object with some of the keys title, tags and mood.
EmptyObject == [title |-> UNDEF, tags |-> UNDEF, mood |-> UNDEF]
Analyses ==
  [title : {UNDEF, <<"T">>}, tags : {UNDEF, <<"x">>}, mood : {UNDEF, <<"calm">>}]
IngestTexts ==
  {[kind |-> k, analysis |-> EmptyObject] :
     k \in {"undefined", "empty", "garbage", "null"}}
  \cup {[kind |-> "object", analysis |-> a] : a \in Analyses}
IngestResponses ==
  {[throws |-> TRUE, text |-> [kind |-> "undefined", analysis |-> EmptyObject]]}
  \cup {[throws |-> FALSE, text |-> t] : t \in IngestTexts}

\* !text
NoText(text) == text.kind \in {"undefined", "empty"}

\* JSON.parse(text): a SyntaxError, null, or the object.
JSONParse(text) ==
  CASE text.kind = "object" ->
         [threw |-> FALSE, isNull |-> FALSE, value |-> text.analysis]
    [] text.kind = "null" ->
         [threw |-> FALSE, isNull |-> TRUE, value |-> EmptyObject]
    [] OTHER -> [threw |-> TRUE, isNull |-> FALSE, value |-> EmptyObject]

\* The object of the catch block.
IngestFallback(filename) ==
  [threw |-> FALSE, title |-> filename, type |-> "DOCUMENT",
   tags |-> <<"file">>, mood |-> <<"neutral">>]

\* The object the try block returns.
IngestAnalyzed(analysis, type, filename) ==
  [threw |-> FALSE, title |-> OrElse(analysis.title, filename), type |-> type,
   tags |-> IF analysis.tags = UNDEF THEN <<>> ELSE analysis.tags,
   mood |-> OrElse(analysis.mood, <<"neutral">>)]

\* The try block of ingestRecall: reading a key of null is a TypeError.
ingestRecallTry(mimeType, filename, response) ==
  IF response.throws \/ NoText(response.text) THEN Thrown
  ELSE LET parsed == JSONParse(response.text)
       IN IF parsed.threw \/ parsed.isNull THEN Thrown
          ELSE IngestAnalyzed(parsed.value, IngestType(mimeType, filename),
                              filename)

\* The try block of the earlier ingestRecall: JSON.parse(response.text || "{}")
ingestRecallEarlierTry(mimeType, filename, response) ==
  IF response.throws THEN Thrown
  ELSE LET parsed == IF NoText(response.text)
                     THEN [threw |-> FALSE, isNull |-> FALSE,
                           value |-> EmptyObject]
                     ELSE JSONParse(response.text)
       IN IF parsed.threw \/ parsed.isNull THEN Thrown
          ELSE IngestAnalyzed(parsed.value, IngestType(mimeType, filename),
                              filename)

\* Variant of IngestCatch: no catch block.
IngestUncaught(attempt, filename) == attempt

\* catch (error) { console.error(...); return {...} }
IngestCatch(attempt, filename) ==
  IF attempt.threw THEN IngestFallback(filename) ELSE attempt

ingestRecall(mimeType, filename, response) ==
  IngestCatch(ingestRecallTry(mimeType, filename, response), filename)

ingestRecallEarlier(mimeType, filename, response) ==
  IngestCatch(ingestRecallEarlierTry(mimeType, filename, response), filename)

\* text.trim() on a string of characters; undefined?.trim() is undefined.
RECURSIVE TrimStart(_)
TrimStart(s) ==
  IF s # <<>> /\ Head(s) = " " THEN TrimStart(Tail(s)) ELSE s

RECURSIVE TrimEnd(_)
TrimEnd(s) ==
  IF s # <<>> /\ s[Len(s)] = " " THEN TrimEnd(SubSeq(s, 1, Len(s) - 1)) ELSE s

OptionalTrim(s) == IF s = UNDEF THEN UNDEF ELSE TrimEnd(TrimStart(s))

SelectedTexts == {<<"a">>, <<"a", " ">>}
SelectionTexts == {UNDEF, <<>>, <<" ">>, <<"b">>, <<" ", "b">>}
SelectionResponses ==
  {[throws |-> TRUE, text |-> UNDEF]}
  \cup {[throws |-> FALSE, text |-> t] : t \in SelectionTexts}

\* The try block: return response.text?.trim() || selection
editSpecificSelectionTry(sel, response) ==
  IF response.throws THEN Thrown
  ELSE [threw |-> FALSE, value |-> OrElse(OptionalTrim(response.text), sel)]

\* catch (error) { console.error(...); throw error }
SelectionCatch(attempt, sel) == IF attempt.threw THEN Thrown ELSE attempt

editSpecificSelection(sel, response) ==
  SelectionCatch(editSpecificSelectionTry(sel, response), sel)

\* The parts of a model response: text, or a function call whose args are
\* absent, hold the required keys only, or hold every key.
ToolNames ==
  {"updateMemoryContent", "createMemory", "organizeCanvas", "deleteMemory"}
RecognizedTools == {"updateMemoryContent", "createMemory", "organizeCanvas"}
ArgKinds == {"undefined", "required", "all"}
TextParts ==
  {[kind |-> "text", name |-> "", args |-> "undefined", text |-> t] :
     t \in {<<>>, <<"hi">>}}
CallParts ==
  {[kind |-> "call", name |-> n, args |-> a, text |-> <<>>] :
     n \in ToolNames, a \in ArgKinds}
PartsUpTo(n) == UNION {[1..k -> TextParts \cup CallParts] : k \in 0..n}

AgentRawResponses ==
  {[throws |-> TRUE, candidates |-> FALSE, parts |-> <<>>],
   [throws |-> FALSE, candidates |-> FALSE, parts |-> <<>>]}
  \cup {[throws |-> FALSE, candidates |-> TRUE, parts |-> p] :
          p \in PartsUpTo(MaxParts)}

\* response.text: the text parts of the first candidate joined, or undefined.
RECURSIVE JoinText(_)
JoinText(parts) ==
  IF parts = <<>> THEN <<>>
  ELSE (IF Head(parts).kind = "text" THEN Head(parts).text ELSE <<>>)
       \o JoinText(Tail(parts))

ResponseText(response) ==
  IF response.candidates /\ \E k \in 1..Len(response.parts) :
                              response.parts[k].kind = "text"
  THEN JoinText(response.parts)
  ELSE UNDEF

\* The index of the last part that carries a function call, 0 if none.
LastCall(parts) ==
  IF \E k \in 1..Len(parts) : parts[k].kind = "call"
  THEN CHOOSE k \in 1..Len(parts) :
         /\ parts[k].kind = "call"
         /\ \A j \in (k + 1)..Len(parts) : parts[j].kind # "call"
  ELSE 0

\* parts?.find(p => p.functionCall): the index of the first part that carries
\* a function call, 0 if none.
FirstCall(parts) ==
  IF \E k \in 1..Len(parts) : parts[k].kind = "call"
  THEN CHOOSE k \in 1..Len(parts) :
         /\ parts[k].kind = "call"
         /\ \A j \in 1..(k - 1) : parts[j].kind # "call"
  ELSE 0

DefaultMessage == <<"I've analyzed the data but no action was required.">>
FailureMessage == <<"Agent failed to connect to neural core.">>

ChatResult(message) ==
  [threw |-> FALSE, type |-> "chat", message |-> message, args |-> "undefined",
   sourceIds |-> UNDEF, tags |-> UNDEF]

\* args.sourceIds || [] and args.tags || []
OptionalList(args, list) == IF args = "all" THEN list ELSE <<>>

\* The result built from a recognized tool call.
ToolResult(toolCall) ==
  CASE toolCall.name = "updateMemoryContent" ->
         [threw |-> FALSE, type |-> "update", message |-> UNDEF,
          args |-> toolCall.args, sourceIds |-> UNDEF, tags |-> UNDEF]
    [] toolCall.name = "createMemory" ->
         [threw |-> FALSE, type |-> "create", message |-> UNDEF,
          args |-> toolCall.args,
          sourceIds |-> OptionalList(toolCall.args, <<"1">>),
          tags |-> OptionalList(toolCall.args, <<"x">>)]
    [] OTHER ->
         [threw |-> FALSE, type |-> "move", message |-> UNDEF,
          args |-> toolCall.args, sourceIds |-> UNDEF, tags |-> UNDEF]

\* The try block of runAgenticCommand: reading a key of absent args is a
\* TypeError.
runAgenticCommandTry(response) ==
  IF response.throws THEN Thrown
  ELSE LET parts == IF response.candidates THEN response.parts ELSE <<>>
           k == FirstCall(parts)
       IN IF k # 0 /\ parts[k].name \in RecognizedTools
          THEN IF parts[k].args = "undefined" THEN Thrown
               ELSE ToolResult(parts[k])
          ELSE ChatResult(OrElse(ResponseText(response), DefaultMessage))

\* catch (error) { console.error(...); return { type: 'chat', ... } }
AgentCatch(attempt) ==
  IF attempt.threw THEN ChatResult(FailureMessage) ELSE attempt

runAgenticCommand(response) == AgentCatch(runAgenticCommandTry(response))

\* One call of a service function on one input and one model response.
CallIngestRecall(mimeType, filename, response) ==
  /\ svc = NoCall
  /\ svc' = [fn |-> "ingestRecall", mimeType |-> mimeType,
             filename |-> filename, response |-> response,
             result |-> ingestRecall(mimeType, filename, response)]
  /\ UNCHANGED <<shellVars, viewerVars, ev, storage, canvasVars>>

CallIngestRecallEarlier(mimeType, filename, response) ==
  /\ svc = NoCall
  /\ svc' = [fn |-> "ingestRecallEarlier", mimeType |-> mimeType,
             filename |-> filename, response |-> response,
             result |-> ingestRecallEarlier(mimeType, filename, response)]
  /\ UNCHANGED <<shellVars, viewerVars, ev, storage, canvasVars>>

CallEditSpecificSelection(sel, response) ==
  /\ svc = NoCall
  /\ svc' = [fn |-> "editSpecificSelection", selection |-> sel,
             response |-> response,
             result |-> editSpecificSelection(sel, response)]
  /\ UNCHANGED <<shellVars, viewerVars, ev, storage, canvasVars>>

CallRunAgenticCommand(response) ==
  /\ svc = NoCall
  /\ svc' = [fn |-> "runAgenticCommand", response |-> response,
             result |-> runAgenticCommand(response)]
  /\ UNCHANGED <<shellVars, viewerVars, ev, storage, canvasVars>>

\* The caller has taken the result.
ServiceReturn ==
  /\ svc # NoCall
  /\ svc' = NoCall
  /\ UNCHANGED <<shellVars, viewerVars, ev, storage, canvasVars>>

\* ------------------------------------------------------------- handleDrop
\* What the model answers to ingestRecall's request: an object, or a failure.
Answered ==
  [throws |-> FALSE, text |-> [kind |-> "object", analysis |-> EmptyObject]]
Unanswered ==
  [throws |-> TRUE, text |-> [kind |-> "undefined", analysis |-> EmptyObject]]

\* A dropped file: file.type, file.name, whether reading it fails (the
\* FileReader's onerror, arrayBuffer() or the converter), and the model's
\* answer to its analysis.
DroppedFiles ==
  {[mimeType |-> <<"image", "png">>, name |-> <<"photo", ".png">>,
    unreadable |-> FALSE, response |-> Answered],
   [mimeType |-> <<"image", "png">>, name |-> <<"photo", ".png">>,
    unreadable |-> FALSE, response |-> Unanswered],
   [mimeType |-> <<"text", "plain">>, name |-> <<"notes", ".md">>,
    unreadable |-> FALSE, response |-> Answered],
   [mimeType |-> <<"application", "msword">>, name |-> <<"report", ".docx">>,
    unreadable |-> FALSE, response |-> Answered],
   [mimeType |-> <<"application", "pdf">>, name |-> <<"data", ".bin">>,
    unreadable |-> TRUE, response |-> Answered]}
DroppedBatches == UNION {[1..n -> DroppedFiles] : n \in 0..MaxFiles}

isDocx(file) == EndsWith(file.name, ".docx")
isExcel(file) == EndsWith(file.name, ".xlsx") \/ EndsWith(file.name, ".xls")
DropIsText(file) ==
  \/ StartsWith(file.mimeType, "text")
  \/ EndsWith(file.name, ".md")
  \/ EndsWith(file.name, ".ts")

\* content: the converted document, the sheets, the text or the base64 data.
Converted(file) ==
  IF isDocx(file) THEN <<"h">>
  ELSE IF isExcel(file) THEN <<"s">>
  ELSE IF DropIsText(file) THEN <<"a">>
  ELSE <<"i">>

ingestMime(file) ==
  IF isDocx(file) THEN <<"text", "html">>
  ELSE IF isExcel(file) THEN <<"application", "json">>
  ELSE file.mimeType

\* const type = (isDocx || isExcel) ? DOCUMENT : (analysis.type || DOCUMENT)
DropType(file, analysis) ==
  IF isDocx(file) \/ isExcel(file) THEN "DOCUMENT"
  ELSE IF analysis.type = "" THEN "DOCUMENT" ELSE analysis.type

\* jitter(), twice.
Jitters == {<<0, 0>>, <<-60, 59>>}

RECURSIVE Peers(_, _)
Peers(list, type) ==
  IF list = <<>> THEN <<>>
  ELSE (IF Head(list).type = type THEN <<Head(list)>> ELSE <<>>)
       \o Peers(Tail(list), type)

\* The archetype anchor of a type with no peers.
Anchor(type) ==
  CASE type \in {"IMAGE", "HYBRID"} -> [x |-> 900, y |-> 200]
    [] type = "DOCUMENT" -> [x |-> 200, y |-> 200]
    [] type \in {"AUDIO", "VIDEO"} -> [x |-> 200, y |-> 700]
    [] OTHER -> [x |-> 600, y |-> 500]

\* A position that forgets the peers.
SmartPositionAtAnchor(type, currentMemories) == Anchor(type)
\* getSmartPosition without the jitter.
SmartPosition(type, currentMemories) ==
  LET peers == Peers(currentMemories, type)
  IN IF Len(peers) > 0
     THEN [x |-> Mean(SumOf(peers, "x"), Len(peers)),
           y |-> Mean(SumOf(peers, "y"), Len(peers))]
     ELSE Anchor(type)

\* newMemory of one file.
Ingested(file, analysis, pos, jitter, id, t) ==
  [id |-> id, type |-> DropType(file, analysis), content |-> Converted(file),
   thumbnail |-> IF analysis.type = "IMAGE" THEN Converted(file) ELSE <<>>,
   updatedAt |-> t, tags |-> analysis.tags,
   history |-> <<ImportEntry(Converted(file))>>,
   x |-> pos.x + jitter[1], y |-> pos.y + jitter[2]]

\* The files of a drop that could not be read.
Unreadable(files) == {k \in 1..Len(files) : files[k].unreadable}

\* A failure that leaves the loop: the rest of the batch is not read.
NextFileAbandoning(drop) == Len(drop.files) + 1
\* catch inside the loop body: the loop goes on with the next file.
NextFile(drop) == drop.next + 1

\* Positions computed from the list of the drop's start alone.
PositionBasisAtDropTime(drop) == drop.currentMemoryState
\* The loop's currentMemoryState when it reaches the next file: the list the
\* closure captured and the records of the files before it.
PositionBasis(drop) == drop.currentMemoryState \o drop.newMemoriesBatch

\* handleDrop up to its first await: the closure of the call.
StartDrop(files) ==
  /\ drops = <<>>
  /\ now + Len(files) <= MaxTime
  /\ IF Len(files) = 0
     THEN UNCHANGED drops
     ELSE drops' = <<[files |-> files, next |-> 1, newMemoriesBatch |-> <<>>,
                      currentMemoryState |-> memories]>>
  /\ ev' = [op |-> "dropped", mounted |-> FALSE]
  /\ UNCHANGED <<shellVars, viewerVars, svc, storage, canvas>>

\* One turn of the loop for the next file of drops[i], and, after the last
\* file, the end of handleDrop: setMemories(prev => [...newMemoriesBatch,
\* ...prev]) when the batch is not empty.
IngestFile(i, jitter) ==
  /\ i \in 1..Len(drops)
  /\ LET drop == drops[i]
         file == drop.files[drop.next]
         analysis == ingestRecall(ingestMime(file), file.name, file.response)
         pos == SmartPosition(DropType(file, analysis), PositionBasis(drop))
         batch == IF file.unreadable THEN drop.newMemoriesBatch
                  ELSE Append(drop.newMemoriesBatch,
                              Ingested(file, analysis, pos, jitter,
                                       FreshId(now + 1), now + 1))
         next == IF file.unreadable THEN NextFile(drop) ELSE drop.next + 1
     IN /\ file.unreadable \/ now < MaxTime
        /\ file.unreadable => jitter = <<0, 0>>
        /\ now' = IF file.unreadable THEN now ELSE now + 1
        /\ IF next > Len(drop.files)
           THEN /\ memories' = batch \o memories
                /\ drops' = RemoveAt(drops, i)
                /\ ev' = [op |-> "dropDone", mounted |-> FALSE,
                          failed |-> Cardinality(Unreadable(drop.files))]
           ELSE /\ memories' = memories
                /\ drops' = [drops EXCEPT ![i].next = next,
                                          ![i].newMemoriesBatch = batch]
                /\ ev' = [op |-> "ingested", mounted |-> FALSE]
  /\ storage' = Serialize(memories')
  /\ UNCHANGED <<activeMemory, appIsProcessing, cmdPending, chatHistory, viewerVars, svc,
                 canvas>>

\* ------------------------------------------------------ restart and reset
\* The load effect: the saved list, or the seed when nothing is saved.
Loaded(saved) == IF saved[1] = "null" THEN <<WelcomeMemory>> ELSE Parse(saved)

\* The application starts with saved under the key: initial state, load
\* effect, persist effect, the canvas's mount effect (on the initial []:
\* the canvas mounts before the loaded list is rendered).  The calls that were
\* in progress are gone with the page.
Restart(saved) ==
  /\ memories' = Loaded(saved)
  /\ storage' = Serialize(memories')
  /\ activeMemory' = NoMemory
  /\ activeContent' = <<>>
  /\ agentPrompt' = ""
  /\ isProcessing' = FALSE
  /\ historyIndex' = -1
  /\ selection' = NoSelection
  /\ appIsProcessing' = FALSE
  /\ cmdPending' = 0
  /\ chatHistory' = <<>>
  /\ pending' = <<>>
  /\ drops' = <<>>
  /\ canvas' = [CenteredCanvas(<<>>) EXCEPT !.moves = canvas.moves]

\* The page is reloaded.
Reload ==
  /\ Restart(storage)
  /\ ev' = [op |-> "reload", mounted |-> FALSE]
  /\ UNCHANGED <<now, svc>>

\* handleReset, from the reset control or from the '/reset' and 'system
\* reset' commands: window.confirm, removeItem, location.reload().
handleReset(confirmed) ==
  /\ IF confirmed
     THEN Restart(NoEntry)
     ELSE UNCHANGED <<shellVars, viewerVars, storage, canvasVars>>
  /\ ev' = [op |-> IF confirmed THEN "reset" ELSE "resetDeclined",
            mounted |-> FALSE]
  /\ UNCHANGED <<now, svc>>

\* A stored value that JSON.parse rejects.
Corrupted == <<"garbage">>

\* The application starts on a corrupted entry: JSON.parse throws inside the
\* load effect's try, catch calls handleReset().  Declined, the list stays
\* the initial [] and the persist effect stores it.  Confirmed, the entry is
\* removed and the page reloads; the persist effect of the same commit still
\* stores [] unless the page is unloaded first.
StartCorrupted(confirmed, unloadsFirst) ==
  /\ Restart(IF ~confirmed \/ ~unloadsFirst THEN Serialize(<<>>) ELSE NoEntry)
  /\ ev' = [op |-> "startCorrupted", mounted |-> FALSE]
  /\ UNCHANGED <<now, svc>>

\* The same start in the Shell of App.tsx, whose load effect has no try:
\* the SyntaxError leaves the effect, the rest of the component's effects is
\* not run and the tree is unmounted.
StartCorruptedEarlier ==
  /\ memories' = <<>>
  /\ storage' = Corrupted
  /\ activeMemory' = NoMemory
  /\ activeContent' = <<>>
  /\ agentPrompt' = ""
  /\ isProcessing' = FALSE
  /\ historyIndex' = -1
  /\ selection' = NoSelection
  /\ appIsProcessing' = FALSE
  /\ cmdPending' = 0
  /\ chatHistory' = <<>>
  /\ pending' = <<>>
  /\ drops' = <<>>
  /\ canvas' = [CenteredCanvas(<<>>) EXCEPT !.moves = canvas.moves]
  /\ ev' = [op |-> "crashed", mounted |-> FALSE]
  /\ UNCHANGED <<now, svc>>

\* ------------------------------------------------------------------- Next
NextViewer ==
  \/ \E k \in 1..Len(memories) : OpenMemory(k)
  \/ CloseViewer
  \/ \E p \in Prompts : TypePrompt(p)
  \/ ClickExecute
  \/ PressEnter
  \/ \E i \in 1..Len(pending) :
       \E result \in ResultsOf(pending[i]) : ResolveAgentAction(i, result)
  \/ \E i \in 1..Len(pending) : RejectAgentAction(i)
  \/ handleRestoreVersion
  \/ \E idx \in 0..(Len(activeMemory.history) - 1) : handleHistoryClick(idx)
  \/ \E start \in 0..Len(activeContent) :
       \E end \in start..Len(activeContent) : handleSelection(start, end)

NextShell ==
  \/ CommandSubmit
  \/ \E result \in AgentResponses : CommandResult(result)

Next == NextViewer \/ NextShell

Spec == Init /\ [][Next]_vars

SpecViewer == Init /\ [][NextViewer]_vars

\* The ranges selected in the note: inner ranges, both ends, everything.
NoteSelections == {<<2, 5>>, <<0, 3>>, <<5, 8>>, <<3, 4>>, <<0, 8>>}

\* Selection edits of the note in the Viewer.
NextNote ==
  \/ \E k \in 1..Len(memories) : OpenMemory(k)
  \/ CloseViewer
  \/ TypePrompt("fix")
  \/ ClickExecute
  \/ \E i \in 1..Len(pending) :
       \E result \in ResultsOf(pending[i]) : ResolveAgentAction(i, result)
  \/ \E i \in 1..Len(pending) : RejectAgentAction(i)
  \/ \E range \in NoteSelections : handleSelection(range[1], range[2])

SpecNote == InitNote /\ [][NextNote]_vars

\* The spatial canvas with the Viewer it opens.
NextCanvas ==
  \/ \E deltaY \in WheelDeltas : handleWheel(deltaY)
  \/ ZoomIn
  \/ ZoomOut
  \/ centerViewport
  \/ handleMouseDown
  \/ \E k \in 1..Len(memories) : handleNodeMouseDown(k)
  \/ \E move \in Moves : handleMouseMove(move)
  \/ handleMouseUp
  \/ handleMouseLeave
  \/ \E k \in 1..Len(memories) : NodeClick(k)
  \/ \E k \in 1..Len(memories) : handleContextMenu(k)
  \/ ContextMenuDelete
  \/ ContextMenuOpen
  \/ CloseViewer

SpecCanvas == Init /\ [][NextCanvas]_vars

\* Drops of files, with the list changing meanwhile.
NextDrop ==
  \/ \E files \in DroppedBatches : StartDrop(files)
  \/ \E i \in 1..Len(drops) : \E jitter \in Jitters : IngestFile(i, jitter)
  \/ \E k \in 1..Len(memories) : handleContextMenu(k)
  \/ ContextMenuDelete

SpecDrop == Init /\ [][NextDrop]_vars

\* Drops of files, and Viewer edits of the records they made.
NextIngest ==
  \/ \E file \in DroppedFiles : StartDrop(<<file>>)
  \/ \E i \in 1..Len(drops) : IngestFile(i, <<0, 0>>)
  \/ \E k \in 1..Len(memories) : OpenMemory(k)
  \/ CloseViewer
  \/ TypePrompt("fix")
  \/ ClickExecute
  \/ \E i \in 1..Len(pending) :
       \E result \in ResultsOf(pending[i]) : ResolveAgentAction(i, result)

SpecIngest == Init /\ [][NextIngest]_vars

\* No operation is in progress: no call awaited, no Viewer, no gesture; and
\* the run ends with the restart after a reload.
Quiet ==
  /\ ev.op # "reload"
  /\ pending = <<>>
  /\ drops = <<>>
  /\ cmdPending = 0
  /\ ~ViewerOpen
  /\ canvas.pointer = "idle"
  /\ canvas.contextMenu = 0

\* One result of each kind that changes the list.
PersistResponses ==
  LayoutResponses
    \cup {r \in AgentResponses :
            \/ r.type = "update" /\ r.id = 1
            \/ r.type = "create" /\ r.memoryType = "TEXT"}

\* The Shell with every operation that changes the list, one operation at a
\* time, over restarts at any moment.  Drags share the budget of the clock.
NextPersist ==
  \/ Quiet /\ \E file \in {f \in DroppedFiles : f.name[2] = ".md"} :
                StartDrop(<<file>>)
  \/ \E i \in 1..Len(drops) : IngestFile(i, <<0, 0>>)
  \/ Quiet /\ \E k \in 1..Len(memories) : OpenMemory(k)
  \/ CloseViewer
  \/ TypePrompt("fix")
  \/ ClickExecute
  \/ \E i \in 1..Len(pending) :
       \E result \in ResultsOf(pending[i]) : ResolveAgentAction(i, result)
  \/ \E idx \in 0..(Len(activeMemory.history) - 1) : handleHistoryClick(idx)
  \/ handleRestoreVersion
  \/ Quiet /\ \E k \in 1..Len(memories) : handleContextMenu(k)
  \/ ContextMenuDelete
  \/ Quiet /\ \E k \in 1..Len(memories) : handleNodeMouseDown(k)
  \/ now + canvas.moves < MaxTime /\ handleMouseMove(<<10, 0>>)
  \/ handleMouseLeave
  \/ Quiet /\ CommandSubmit
  \/ \E result \in PersistResponses : CommandResult(result)
  \/ Reload
  \/ Quiet /\ \E confirmed \in BOOLEAN : handleReset(confirmed)

SpecPersist == InitNote /\ [][NextPersist]_vars

\* Sessions that start on a corrupted entry; nothing follows a crash.
NextStart ==
  \/ ev.op # "crashed" /\ NextDrop
  \/ /\ ev.op # "crashed"
     /\ \E confirmed, unloadsFirst \in BOOLEAN :
          StartCorrupted(confirmed, unloadsFirst)
  \/ ev.op # "crashed" /\ StartCorruptedEarlier

SpecStart == Init /\ [][NextStart]_vars

\* Deletions and resets around the Viewer and its edits.
NextDelete ==
  \/ \E k \in 1..Len(memories) : OpenMemory(k)
  \/ CloseViewer
  \/ TypePrompt("fix")
  \/ ClickExecute
  \/ \E i \in 1..Len(pending) :
       \E result \in ResultsOf(pending[i]) : ResolveAgentAction(i, result)
  \/ \E k \in 1..Len(memories) : handleContextMenu(k)
  \/ ContextMenuDelete
  \/ \E confirmed \in BOOLEAN : ViewerDelete(confirmed)
  \/ \E confirmed \in BOOLEAN : handleReset(confirmed)

SpecDelete == Init /\ [][NextDelete]_vars

\* The values the canvas derives from the list it is given.
\* Drops of whole batches of images and notes, with the jitters at both
\* ends of their range.
JitterExtremes == {<<-60, 59>>, <<59, -60>>}
BatchFiles ==
  {file \in DroppedFiles :
     /\ ~file.unreadable
     /\ file.response = Answered
     /\ file.name \in {<<"photo", ".png">>, <<"notes", ".md">>}}

NextBatch ==
  \/ \E files \in [1..MaxFiles -> BatchFiles] : StartDrop(files)
  \/ \E i \in 1..Len(drops) :
       \E jitter \in Jitters \cup JitterExtremes : IngestFile(i, jitter)

SpecBatch == Init /\ [][NextBatch]_vars

\* The command bar with results that name records: updates and moves of
\* each id a list can hold and of one more.
NamingResponses ==
  {r \in AgentResponses : r.type = "update"}
    \cup {[type |-> "update", id |-> MaxMem + 1, memoryType |-> "",
           content |-> <<"b">>, layout |-> <<>>, sourceIds |-> <<>>,
    tags |-> <<>>]}
    \cup {[type |-> "move", id |-> 0, memoryType |-> "", content |-> <<>>,
           layout |-> <<[id |-> i, x |-> 0, y |-> 0]>>, sourceIds |-> <<>>,
    tags |-> <<>>]
            : i \in 1..(MaxMem + 1)}

NextCommand ==
  \/ CommandSubmit
  \/ \E result \in NamingResponses : CommandResult(result)

SpecCommand == Init /\ [][NextCommand]_vars

\* The command bar with create results as runAgenticCommand builds them:
\* sourceIds and tags are the tool call's lists, or [] when it gave none.
CreateResponses ==
  [type : {"create"}, id : {0}, memoryType : {"TEXT", "IMAGE"},
   content : {<<"b">>},
   layout : {<<>>}, sourceIds : {<<>>, <<1>>, <<1, 2>>, <<MaxMem + 1>>},
   tags : {<<>>, <<"x">>}]

NextCreate ==
  \/ CommandSubmit
  \/ \E result \in CreateResponses \cup LayoutResponses : CommandResult(result)

SpecCreate == Init /\ [][NextCreate]_vars

\* The later Viewer with its conversions, on every version of a memory.
NextConvert ==
  \/ \E k \in 1..Len(memories) : OpenMemory(k)
  \/ CloseViewer
  \/ \E p \in ConversionPrompts : TypeConversion(p)
  \/ \E byEnter \in BOOLEAN : handleConversion(byEnter)
  \/ \E idx \in 0..(Len(activeMemory.history) - 1) : handleHistoryClick(idx)
  \/ handleSelection(0, 1)

SpecConvert == Init /\ [][NextConvert]_vars

\* The later Viewer with its conversions and the RESTORE button.
NextRestore ==
  \/ \E k \in 1..Len(memories) : OpenMemory(k)
  \/ CloseViewer
  \/ \E p \in ConversionPrompts : TypeConversion(p)
  \/ handleConversion(FALSE)
  \/ \E idx \in 0..(Len(activeMemory.history) - 1) : handleHistoryClick(idx)
  \/ handleRestoreVersion

SpecRestore == Init /\ [][NextRestore]_vars

\* Sessions that reload the page, between deletions, resets and changes of
\* the viewport.
NextReload ==
  \/ Reload
  \/ \E confirmed \in BOOLEAN : handleReset(confirmed)
  \/ \E k \in 1..Len(memories) : handleContextMenu(k)
  \/ ContextMenuDelete
  \/ centerViewport
  \/ ZoomIn
  \/ ZoomOut

SpecReload == Init /\ [][NextReload]_vars

\* The Viewer on a stored workbook.
InitSheet ==
  /\ memories = <<SavedSheet>>
  /\ ViewerClosed
  /\ appIsProcessing = FALSE
  /\ cmdPending = 0
  /\ chatHistory = <<>>
  /\ now = 0
  /\ pending = <<>>
  /\ ev = NoEvent
  /\ svc = NoCall
  /\ storage = Serialize(memories)
  /\ canvas = CenteredCanvas(<<>>)
  /\ drops = <<>>

NextSheet ==
  \/ \E k \in 1..Len(memories) : OpenMemory(k)
  \/ CloseViewer
  \/ TypePrompt("fix")
  \/ ClickExecute
  \/ PressEnter
  \/ \E i \in 1..Len(pending) :
       \E result \in ResultsOf(pending[i]) : ResolveAgentAction(i, result)
  \/ \E idx \in 0..(Len(activeMemory.history) - 1) : handleHistoryClick(idx)
  \/ handleRestoreVersion

SpecSheet == InitSheet /\ [][NextSheet]_vars

\* The Library over every tagged list, search text and tag filter.
NextLibrary ==
  \/ \E list \in TaggedLists, searchQuery \in SearchQueries,
        filterTag \in FilterTags : RenderLibrary(list, searchQuery, filterTag)
  \/ ServiceReturn

SpecLibrary == Init /\ [][NextLibrary]_vars

\* Selections in the Viewer, in the text view and in the rendered document,
\* around history clicks, edits and updates from the command bar.
InitSelect ==
  /\ memories = <<SavedDoc, SavedText>>
  /\ ViewerClosed
  /\ appIsProcessing = FALSE
  /\ cmdPending = 0
  /\ chatHistory = <<>>
  /\ now = 0
  /\ pending = <<>>
  /\ ev = NoEvent
  /\ svc = NoCall
  /\ storage = Serialize(memories)
  /\ canvas = CenteredCanvas(<<>>)
  /\ drops = <<>>

NextSelect ==
  \/ \E k \in 1..Len(memories) : OpenMemory(k)
  \/ CloseViewer
  \/ TypePrompt("fix")
  \/ PressEnter
  \/ \E i \in 1..Len(pending) :
       \E result \in ResultsOf(pending[i]) : ResolveAgentAction(i, result)
  \/ \E idx \in 0..(Len(activeMemory.history) - 1) : handleHistoryClick(idx)
  \/ \E end \in 0..1 : handleSelection(0, end)
  \/ \E text \in WindowSelections : handleWindowSelection(text)
  \/ CommandSubmit
  \/ \E result \in {r \in AgentResponses : r.type = "update" /\ r.id = 1} :
       CommandResult(result)

SpecSelect == InitSelect /\ [][NextSelect]_vars

\* The Agent Chat Panel of the three-pane layout.
NextPanel ==
  \/ \E input \in PanelInputs : AgentCommandSubmit(input)
  \/ \E result \in AgentResponses : AgentCommandResult(result)

SpecPanel == Init /\ [][NextPanel]_vars

NextDerived ==
  \/ \E list \in TaggedLists : RenderConnections(list)
  \/ ServiceReturn

SpecDerived == Init /\ [][NextDerived]_vars

NextService ==
  \/ \E mimeType \in MimeTypes, filename \in Filenames,
        response \in IngestResponses :
       \/ CallIngestRecall(mimeType, filename, response)
       \/ CallIngestRecallEarlier(mimeType, filename, response)
  \/ \E sel \in SelectedTexts, response \in SelectionResponses :
       CallEditSpecificSelection(sel, response)
  \/ \E response \in AgentRawResponses : CallRunAgenticCommand(response)
  \/ ServiceReturn

SpecService == Init /\ [][NextService]_vars

\* ----------------------------------------------------------------- claims
IsPrefix(h, g) == Len(h) <= Len(g) /\ SubSeq(g, 1, Len(h)) = h

LastEntry(m) == m.history[Len(m.history)]

\* rec is base with exactly one more history entry, the earlier ones kept.
OneMoreEntry(base, rec) ==
  /\ rec.id = base.id
  /\ Len(rec.history) = Len(base.history) + 1
  /\ SubSeq(rec.history, 1, Len(base.history)) = base.history

Stored(list, id) == MemoryById(list, id)

\* C1: every Viewer edit and every restore hands onUpdate a record whose
\* history is the history of the record the handler worked on plus exactly
\* one new last entry, and that record is the one stored; when the handler
\* worked on the stored record, the stored history grows by that one entry.
\* After a restore made while viewing index i whose content is present, the
\* record's content is history[i].content and the new last entry has author
\* 'user' and that same content.
C1_HistoryAppendAndRestore ==
  [][/\ ev'.op = "edit" =>
          \E i \in 1..Len(pending) :
            /\ pending' = RemoveAt(pending, i)
            /\ OneMoreEntry(pending[i].memory, activeMemory')
            /\ Stored(memories', activeMemory'.id) = activeMemory'
            /\ LastEntry(activeMemory').author = "gemini"
            /\ pending[i].memory = Stored(memories, activeMemory'.id) =>
                 OneMoreEntry(Stored(memories, activeMemory'.id),
                              Stored(memories', activeMemory'.id))
     /\ ev'.op = "restore" =>
          /\ OneMoreEntry(activeMemory, activeMemory')
          /\ Stored(memories', activeMemory'.id) = activeMemory'
          /\ activeMemory = Stored(memories, activeMemory.id) =>
               OneMoreEntry(Stored(memories, activeMemory.id),
                            Stored(memories', activeMemory.id))
          /\ historyIndex \in 0..(Len(activeMemory.history) - 1)
          /\ LET item == activeMemory.history[historyIndex + 1]
             IN Truthy(item.content) =>
                  /\ activeMemory'.content = item.content
                  /\ LastEntry(activeMemory').author = "user"
                  /\ LastEntry(activeMemory').content = item.content
    ]_vars

\* A restore that followed an edit of the same record.
C1_Witness ==
  /\ ev.op = "restore"
  /\ Len(activeMemory.history) = 4
  /\ activeMemory.history[3].author = "gemini"
  /\ LastEntry(activeMemory).author = "user"
  /\ activeMemory.content = activeMemory.history[1].content

\* C2: at most one edit request of the open Viewer is in flight at any time.
C2_AtMostOneInFlight ==
  Cardinality({k \in 1..Len(pending) : pending[k].mounted}) <= 1

\* C3: while the Viewer shows a historical version, no submission calls an
\* AI operation and no edit of this Viewer reaches onUpdate.
C3_NoEditOnHistoricalVersion ==
  [][(ViewerOpen /\ ~isCurrentVersion) =>
       /\ ev'.op # "submit"
       /\ ~(ev'.op = "edit" /\ ev'.mounted)]_vars

\* C4: when the AI operation awaited by handleAgentAction throws, onUpdate
\* is not called, no record changes (content, type, thumbnail, updatedAt and
\* history stay as they were), and the busy flag of the Viewer that made the
\* call is false afterwards.
C4_FailedEditAppliesNothing ==
  [][ev'.op = "editFailed" =>
       /\ memories' = memories
       /\ activeMemory' = activeMemory
       /\ now' = now
       /\ ev'.mounted => isProcessing' = FALSE]_vars

\* A failed edit in an open Viewer that is idle again.
C4_Witness ==
  /\ ev.op = "editFailed"
  /\ ev.mounted
  /\ ViewerOpen
  /\ isProcessing = FALSE
  /\ pending = <<>>

\* C5: handleHistoryClick(i) on an entry with stored content displays
\* exactly that content and sets the viewing index to i; on a sole entry
\* without stored content it displays the memory's content at index 0; and
\* isCurrentVersion holds exactly when the viewing index is the last index.
C5_HistoryClickShowsEntry ==
  [][\A idx \in 0..(Len(activeMemory.history) - 1) :
       handleHistoryClick(idx) =>
         LET item == activeMemory.history[idx + 1]
         IN /\ item.content # UNDEF =>
                 activeContent' = item.content /\ historyIndex' = idx
            /\ (item.content = UNDEF /\ Len(activeMemory.history) = 1) =>
                 activeContent' = activeMemory.content /\ historyIndex' = 0
            /\ isCurrentVersion' <=>
                 historyIndex' = Len(activeMemory'.history) - 1]_vars

\* C6: the history stored for a memory before a step is a prefix of the
\* history stored for it after the step.
C6_StoredHistoryOnlyGrows ==
  [][\A k \in 1..Len(memories) :
       memories[k].id \in IdsOf(memories') =>
         IsPrefix(memories[k].history,
                  Stored(memories', memories[k].id).history)]_vars

\* C7: every stored IMAGE memory has its thumbnail equal to its content.
C7_ImageThumbnailIsContent ==
  \A k \in 1..Len(memories) :
    memories[k].type = "IMAGE" => memories[k].thumbnail = memories[k].content

C9_SelectionEditNeverThrows ==
  svc.fn = "editSpecificSelection" =>
    /\ svc.result.threw = FALSE
    /\ (svc.response.throws \/ ~Truthy(svc.response.text)) =>
         svc.result.value = svc.selection

\* C10: runAgenticCommand never throws and returns one tagged result: the
\* first function call of the response decides it when its name is known
\* (update, create or move); with no function call, or an unknown name, the
\* result is chat with the model's text or the default message; any error
\* (the call throws, or the deciding call has no args) is chat with the
\* failure message.
C10_AgentResultIsTagged ==
  svc.fn = "runAgenticCommand" =>
    LET response == svc.response
        parts == response.parts
        calls == {k \in 1..Len(parts) : parts[k].kind = "call"}
        result == svc.result
    IN /\ result.threw = FALSE
       /\ result.type \in {"update", "create", "move", "chat"}
       /\ response.throws =>
            result.type = "chat" /\ result.message = FailureMessage
       /\ (~response.throws /\ calls = {}) =>
            /\ result.type = "chat"
            /\ result.message \in {ResponseText(response), DefaultMessage}
            /\ Truthy(ResponseText(response)) =>
                 result.message = ResponseText(response)
       /\ \A k \in calls :
            (\A j \in calls : k <= j) =>
              LET first == parts[k]
              IN /\ first.name \notin RecognizedTools =>
                      /\ result.type = "chat"
                      /\ result.message =
                           OrElse(ResponseText(response), DefaultMessage)
                 /\ (first.name \in RecognizedTools
                       /\ first.args = "undefined") =>
                      /\ result.type = "chat"
                      /\ result.message = FailureMessage
                 /\ (first.name \in RecognizedTools
                       /\ first.args # "undefined") =>
                      /\ result.args = first.args
                      /\ result.type =
                           CASE first.name = "updateMemoryContent" -> "update"
                             [] first.name = "createMemory" -> "create"
                             [] OTHER -> "move"

\* Two function calls in one response: the first one decided.
C10_Witness ==
  /\ svc.fn = "runAgenticCommand"
  /\ Len(svc.response.parts) = 2
  /\ svc.response.parts[1].name = "createMemory"
  /\ svc.response.parts[1].args = "required"
  /\ svc.response.parts[2].name = "updateMemoryContent"
  /\ svc.result.type = "create"
  /\ svc.result.sourceIds = <<>>
\* C11: a mouse-down on a node, mouse moves, mouse-up and the click that
\* follows never open the memory, while a mouse-down and mouse-up with no move
\* in between do open it.
C11_DragNeverOpens ==
  /\ ev.op = "clickAfterDrag" => ~ViewerOpen
  /\ ev.op = "click" => ViewerOpen

\* C12: the viewport scale stays within [0.2, 4.0] under wheel events of any
\* delta, the zoom buttons and recentering.
C12_ScaleWithinBounds ==
  /\ canvas.viewport.scale >= MinScale
  /\ canvas.viewport.scale <= MaxScale

\* The scale has been driven to a limit of the range and away from 1.0.
C12_Witness ==
  /\ canvas.viewport.scale \in {MinScale, MaxScale}
  /\ ~ViewerOpen

SharedTags(tags1, tags2) ==
  {tags1[k] : k \in 1..Len(tags1)} \cap {tags2[k] : k \in 1..Len(tags2)}

\* C13: the connections are exactly one per unordered pair of distinct
\* memories that share a tag, with strength min(k, 3) for k shared tags; no
\* connection for a pair without a shared tag, none from a memory to itself.
C13_ConnectionsPerSharingPair ==
  svc.fn = "connections" =>
    LET list == svc.input
        conns == svc.result
    IN /\ \A c \in 1..Len(conns) :
            /\ conns[c].fromId # conns[c].toId
            /\ conns[c].fromId \in 1..Len(list)
            /\ conns[c].toId \in 1..Len(list)
            /\ SharedTags(list[conns[c].fromId], list[conns[c].toId]) # {}
            /\ conns[c].strength =
                 Min(Cardinality(SharedTags(list[conns[c].fromId],
                                            list[conns[c].toId])), 3)
       /\ \A i, j \in 1..Len(list) :
            (i < j /\ SharedTags(list[i], list[j]) # {}) =>
              Cardinality({c \in 1..Len(conns) :
                             {conns[c].fromId, conns[c].toId} = {i, j}}) = 1

\* C14: a selection edit of content with selection [start, end), 0 <= start <
\* end <= length, and replacement r stores content[0, start) + r +
\* content[end, length) and leaves the selection state null ('ABCDEFGH',
\* [2, 5), 'XY' gives 'ABXYFGH').
C14_SelectionEditSplices ==
  [][\A i \in 1..Len(pending) : \A r \in ResultsOf(pending[i]) :
       (/\ ResolveAgentAction(i, r)
        /\ pending[i].operation = "editSpecificSelection"
        /\ 0 <= pending[i].selection.start
        /\ pending[i].selection.start < pending[i].selection.end
        /\ pending[i].selection.end <= Len(pending[i].activeContent))
       => LET content == pending[i].activeContent
              start == pending[i].selection.start
              end == pending[i].selection.end
              spliced == [k \in 1..(start + Len(r) + Len(content) - end) |->
                            IF k <= start THEN content[k]
                            ELSE IF k <= start + Len(r) THEN r[k - start]
                            ELSE content[k - Len(r) - start + end]]
          IN /\ activeMemory'.content = spliced
             /\ activeContent' = spliced
             /\ MemoryById(memories', activeMemory'.id).content = spliced
             /\ selection' = NoSelection]_vars

\* 'ABCDEFGH' with [2, 5) replaced by 'XY'.
C14_Witness ==
  /\ ev.op = "edit"
  /\ Len(activeMemory.history) = 2
  /\ LastEntry(activeMemory).description = "Edited selection"
  /\ activeContent = <<"A", "B", "X", "Y", "F", "G", "H">>
  /\ selection = NoSelection

\* The record that an IngestFile step on drops[i] has just made.
NewRecord(i) ==
  IF Len(drops') < Len(drops)
  THEN memories'[Len(drops[i].newMemoriesBatch) + 1]
  ELSE LastEntry([history |-> drops'[i].newMemoriesBatch])

\* C15: in handleDrop a file whose conversion or ingestion throws adds no
\* memory and does not stop the loop: when the drop ends the list has grown
\* by exactly the number of files that did not fail.
C15_FailedFileIsSkipped ==
  [][\A i \in 1..Len(drops) : \A jitter \in Jitters :
       (IngestFile(i, jitter) /\ Len(drops') < Len(drops)) =>
         Len(memories') =
           Len(memories) + Len(drops[i].files)
             - Cardinality(Unreadable(drops[i].files))]_vars

\* A drop has ended in which one file failed and another was ingested.
C15_Witness ==
  /\ ev.op = "dropDone"
  /\ ev.failed = 1
  /\ \E k \in 1..Len(memories) : memories[k].updatedAt = now /\ now > 0

\* The type the file's own MIME type and name call for.
TypeByMime(file, analysis) ==
  IF StartsWith(file.mimeType, "image") THEN "IMAGE"
  ELSE IF StartsWith(file.mimeType, "video") THEN "VIDEO"
  ELSE IF StartsWith(file.mimeType, "audio") THEN "AUDIO"
  ELSE IF isDocx(file) \/ isExcel(file) THEN "DOCUMENT"
  ELSE IF analysis.type = "" THEN "DOCUMENT" ELSE analysis.type

\* C16: a dropped file is stored as IMAGE, VIDEO or AUDIO when its MIME type
\* is image/*, video/* or audio/*, whatever ingestRecall returned; as DOCUMENT
\* when it is an office document or a spreadsheet; otherwise with the type
\* ingestRecall returned, or DOCUMENT when it returned none.
C16_StoredTypeFollowsMime ==
  [][\A i \in 1..Len(drops) : \A jitter \in Jitters :
       LET file == drops[i].files[drops[i].next]
       IN (IngestFile(i, jitter) /\ ~file.unreadable) =>
            NewRecord(i).type =
              TypeByMime(file, ingestRecall(ingestMime(file), file.name,
                                            file.response))]_vars

\* C17: a memory created by handleDrop has at creation exactly one history
\* entry, by 'user', described 'Original Import', with the memory's content;
\* and no ingested memory has an empty history in any later state.
C17_IngestedHistoryNeverEmpty ==
  /\ [][\A i \in 1..Len(drops) :
          (IngestFile(i, <<0, 0>>) /\ ~drops[i].files[drops[i].next].unreadable)
          => /\ Len(NewRecord(i).history) = 1
             /\ NewRecord(i).history[1].author = "user"
             /\ NewRecord(i).history[1].description = "Original Import"
             /\ NewRecord(i).history[1].content = NewRecord(i).content]_vars
  /\ [](/\ \A k \in 1..Len(memories) :
             memories[k].id > 2 => memories[k].history # <<>>
        /\ activeMemory.id > 2 => activeMemory.history # <<>>)

\* An ingested memory that the Viewer has edited since.
C17_Witness ==
  \E k \in 1..Len(memories) :
    /\ memories[k].id > 2
    /\ Len(memories[k].history) = 2
    /\ memories[k].history[1] = ImportEntry(<<"a">>)

\* C18: when a drop of several files ends, the list is the new records, most
\* recent first, followed by the records that were in the list in their
\* previous order, with the changes other actions made to them meanwhile.
C18_BatchPrependedNewestFirst ==
  [][\A i \in 1..Len(drops) : \A jitter \in Jitters :
       (IngestFile(i, jitter) /\ Len(drops') < Len(drops)) =>
         LET n == Len(memories') - Len(memories)
         IN /\ SubSeq(memories', n + 1, Len(memories')) = memories
            /\ \A a, b \in 1..n :
                 a < b => memories'[a].updatedAt > memories'[b].updatedAt]_vars

\* C19: after any sequence of list-changing operations the value stored
\* under the key is the serialization of the current list, and a restart
\* loads a list equal to the list before it.
C19_StorageRoundTrip ==
  /\ [](storage = Serialize(memories))
  /\ [][ev'.op = "reload" => memories' = memories /\ storage' = storage]_vars

\* A restart has loaded a list that holds a record without content next to
\* others.
C19_Witness ==
  /\ ev.op = "reload"
  /\ Len(memories) > 1
  /\ \E k \in 1..Len(memories) : memories[k].content = UNDEF

\* C20: after a confirmed handleReset the persisted entry is empty and the
\* list after the reload is empty.
C20_ResetLeavesNothing ==
  ev.op = "reset" =>
    /\ memories = <<>>
    /\ storage[1] = "null" \/ storage = Serialize(<<>>)

\* C21: on startup with a persisted value that is not valid JSON the
\* application does not crash, the corrupted entry is discarded and the list
\* starts empty or with the single reseeded welcome memory.
C21_CorruptedEntryDiscarded ==
  ev.op \in {"startCorrupted", "crashed"} =>
    /\ ev.op # "crashed"
    /\ storage[1] # "garbage"
    /\ memories = <<>> \/ memories = <<WelcomeMemory>>

\* C22: every deletion of a memory and every full reset is preceded by an
\* explicit confirmation, and when the user declines, the list, the open
\* memory and the persisted storage are unchanged.
C22_DestructionIsConfirmed ==
  /\ [](ev.op = "delete" => ev.asked)
  /\ [][ev'.op \in {"deleteDeclined", "resetDeclined"} =>
          /\ memories' = memories
          /\ activeMemory' = activeMemory
          /\ storage' = storage]_vars

\* C23: while an Agent Chat Panel request is in flight (isProcessing is
\* true), a further call of onCommand dispatches no second
\* runAgenticCommand and appends nothing to the transcript.
C23_NoSecondDispatch ==
  [][appIsProcessing /\ ev'.op \in {"panelSubmit", "panelEmpty"} =>
       /\ cmdPending' = cmdPending
       /\ chatHistory' = chatHistory]_vars

\* C24: a non-empty command appends exactly one 'user' entry; when its
\* runAgenticCommand settles exactly one 'model' entry is appended, for
\* every kind of result; an empty or whitespace-only input appends nothing
\* and dispatches nothing.
C24_OneEntryPerTurn ==
  [][/\ ev'.op = "panelSubmit" =>
          /\ Len(chatHistory') = Len(chatHistory) + 1
          /\ chatHistory'[Len(chatHistory')].role = "user"
          /\ SubSeq(chatHistory', 1, Len(chatHistory)) = chatHistory
     /\ ev'.op = "panelResult" =>
          /\ Len(chatHistory') = Len(chatHistory) + 1
          /\ chatHistory'[Len(chatHistory')].role = "model"
          /\ SubSeq(chatHistory', 1, Len(chatHistory)) = chatHistory
     /\ ev'.op = "panelEmpty" =>
          /\ chatHistory' = chatHistory
          /\ cmdPending' = cmdPending]_vars

\* |n * v - sum| <= n * d: v is within d of sum / n.
WithinOfMean(v, sum, n, d) == -(n * d) <= n * v - sum /\ n * v - sum <= n * d

\* C25: the position getSmartPosition gives a new memory is, on each axis,
\* within 60 of the mean of the peers of its type when there is one, and
\* within 60 of the anchor of its type when there is none.
C25_PositionNearPeersOrAnchor ==
  [][\A i \in 1..Len(drops) : \A jitter \in Jitters :
       LET file == drops[i].files[drops[i].next]
           peers == Peers(drops[i].currentMemoryState
                            \o drops[i].newMemoriesBatch,
                          NewRecord(i).type)
           n == Len(peers)
       IN (IngestFile(i, jitter) /\ ~file.unreadable) =>
            IF n > 0
            THEN /\ WithinOfMean(NewRecord(i).x, SumOf(peers, "x"), n, 60)
                 /\ WithinOfMean(NewRecord(i).y, SumOf(peers, "y"), n, 60)
            ELSE /\ WithinOfMean(NewRecord(i).x,
                                 Anchor(NewRecord(i).type).x, 1, 60)
                 /\ WithinOfMean(NewRecord(i).y,
                                 Anchor(NewRecord(i).type).y, 1, 60)]_vars

\* A drop of two files ended on a list that held one record of their type:
\* the second file's record lies exactly 60 left of the mean of its two
\* peers, a mean that is not a whole number of pixels on the other axis.
C25_Witness ==
  /\ ev.op = "dropDone"
  /\ Len(memories) = 3
  /\ memories[1].type = memories[2].type
  /\ memories[3].type = memories[2].type
  /\ 2 * memories[2].x = memories[1].x + memories[3].x - 120
  /\ (memories[1].y + memories[3].y) % 2 = 1

\* C26: whenever the canonical record of the open memory gets new content
\* while the memory stays open, the Viewer resets to it: the displayed
\* content is the new canonical content, the viewing index is the last
\* history index and the selection is cleared.
C26_ViewerFollowsCanonicalRecord ==
  [][(/\ ViewerOpen
      /\ ViewerOpen'
      /\ activeMemory'.id = activeMemory.id
      /\ activeMemory.id \in IdsOf(memories)
      /\ activeMemory.id \in IdsOf(memories')
      /\ MemoryById(memories', activeMemory.id).content #
           MemoryById(memories, activeMemory.id).content) =>
       LET canonical == MemoryById(memories', activeMemory.id)
       IN /\ activeContent' = canonical.content
          /\ historyIndex' = Len(canonical.history) - 1
          /\ selection' = NoSelection]_vars

Distance(a, b) == IF a < b THEN b - a ELSE a - b

C28_ContentIsLastEntry ==
  \A k \in 1..Len(memories) :
    memories[k].history # <<>> =>
      memories[k].content = LastEntry(memories[k]).content

\* The note was edited in the Viewer and an earlier version was restored
\* afterwards: its content is again the imported one, behind three entries.
C28_Witness ==
  \E k \in 1..Len(memories) :
    /\ Len(memories[k].history) >= 3
    /\ LastEntry(memories[k]).author = "user"
    /\ memories[k].history[2].author = "gemini"
    /\ memories[k].content = memories[k].history[1].content
    /\ memories[k].content # memories[k].history[2].content

\* C29: whenever a memory is open in the Viewer, a memory with that id is in
\* the canonical list.
C29_OpenMemoryIsListed ==
  ViewerOpen => activeMemory.id \in IdsOf(memories)

\* C30: a command-bar result of kind update or move changes no record it
\* does not name: the list keeps its length and every record whose id the
\* result does not name keeps all its fields; a result that names only ids
\* the list does not hold leaves the list as it was.
C30_UnnamedRecordsKept ==
  [][\A result \in NamingResponses :
       CommandResult(result) =>
         /\ Len(memories') = Len(memories)
         /\ \A k \in 1..Len(memories) :
              memories[k].id \notin Named(result) =>
                memories'[k] = memories[k]
         /\ Named(result) \cap IdsOf(memories) = {} => memories' = memories]_vars

\* A move that named a record the list does not hold has been applied to a
\* list whose records are off the move's target.
C30_Witness ==
  /\ ev.op = "move"
  /\ ev.stray
  /\ Len(memories) = 2
  /\ \A k \in 1..Len(memories) : memories[k].x # 0

\* C31: applying a create result adds exactly one memory, last in the
\* list, with one history entry 'Created by Agent' that holds the created
\* content, with the tags ['agent-created'] when the tool call gave no tags,
\* and placed at the centroid of the cited records of the list offset by
\* (100, 50), or at (600, 400) when none is cited or found.
C31_CreatedMemory ==
  [][\A result \in CreateResponses :
       CommandResult(result) =>
         LET new == memories'[Len(memories')]
             sources == Sources(memories, result.sourceIds)
             n == Len(sources)
         IN /\ memories' = Append(memories, new)
            /\ new.id \notin IdsOf(memories)
            /\ new.content = result.content
            /\ Len(new.history) = 1
            /\ new.history[1].description = "Created by Agent"
            /\ new.history[1].content = result.content
            /\ result.tags = <<>> => new.tags = <<"agent-created">>
            /\ IF n > 0
               THEN /\ n * (new.x - 100) - SumOf(sources, "x") \in 0..(n - 1)
                    /\ n * (new.y - 50) - SumOf(sources, "y") \in 0..(n - 1)
               ELSE new.x = 600 /\ new.y = 400]_vars

\* C32: on an instruction with a conversion phrase handleAgentAction calls
\* no AI operation (also for an IMAGE memory, also with a selection), sets
\* the memory's type to the target type and appends exactly one history
\* entry; 'convert to video' leaves the memory's content unchanged.
C32_ConversionIsLocal ==
  [][ev'.op = "convert" =>
       LET before == MemoryById(memories, activeMemory.id)
           after == MemoryById(memories', activeMemory.id)
       IN /\ pending' = pending
          /\ after.type = ConvertedType(ev'.conversion)
          /\ Len(after.history) = Len(before.history) + 1
          /\ SubSeq(after.history, 1, Len(before.history)) = before.history
          /\ ev'.conversion = "video" => after.content = before.content]_vars

\* C33: after handleHistoryClick(i) on an entry with stored content, the
\* sheets the Viewer renders are those of history[i].content, not those of
\* the memory's current content.
C33_SheetsOfSelectedEntry ==
  [][\A idx \in 0..(Len(activeMemory.history) - 1) :
       (/\ handleHistoryClick(idx)
        /\ Truthy(activeMemory.history[idx + 1].content)) =>
         RenderedSheets' =
           SheetsOf(activeMemory.type, activeMemory.history[idx + 1].content)]_vars

\* C34: the Library's tag chips are the first 10 distinct tags, in order
\* of first appearance, of all memories of the canonical list, whatever the
\* search text and the selected tag filter are.
C34_ChipsOfAllMemories ==
  svc.fn = "library" => svc.result = allTags(svc.input)

\* C35: after the Viewer was closed while an AI edit was in flight, the
\* completion of that edit does not reopen it: a closed Viewer stays closed
\* until the user opens a memory.
C35_ClosedViewerStaysClosed ==
  [][(~ViewerOpen /\ ViewerOpen') =>
       \E k \in 1..Len(memories) : OpenMemory(k)]_vars

\* C36: the Shell's isProcessing flag is true exactly while a
\* runAgenticCommand call has not settled: with two commands overlapping it
\* stays true until the last of them settles.
C36_BusyWhileAnyCommandPending ==
  appIsProcessing <=> cmdPending > 0

\* C37: whenever the Viewer holds a selection, 0 <= start < end <= length of
\* the content on display, and the characters of that content from start to
\* end are selection.text.
C37_SelectionIsSubstring ==
  (ViewerOpen /\ selection # NoSelection) =>
    /\ activeContent # UNDEF
    /\ 0 <= selection.start
    /\ selection.start < selection.end
    /\ selection.end <= Len(activeContent)
    /\ Substring(activeContent, selection.start, selection.end) = selection.text

\* A text that the content does not hold was selected in the rendered
\* document while an earlier selection stood.
C37_Witness ==
  /\ ev.op = "windowSelection"
  /\ ev.text = <<"&">>
  /\ selection # NoSelection
  /\ activeMemory.type = "DOCUMENT"

\* C38: handleRestoreVersion changes only the content, thumbnail, updatedAt
\* and history of the memory: its id, type, tags and position stay as they
\* were (also when the restored version was saved before a conversion changed
\* the type), the content becomes the content on display and the history
\* grows by one entry with that content.
C38_RestoreKeepsTheRest ==
  [][handleRestoreVersion =>
       LET before == activeMemory
           after == MemoryById(memories', activeMemory.id)
       IN /\ activeMemory' = after
          /\ after.id = before.id
          /\ after.type = before.type
          /\ after.tags = before.tags
          /\ after.x = before.x
          /\ after.y = before.y
          /\ after.content = activeContent
          /\ after.history =
               Append(before.history,
                      [description |-> "Restored version",
                       content |-> activeContent, author |-> "user"])
          /\ Len(memories') = Len(memories)
          /\ \A k \in 1..Len(memories) :
               memories[k].id # activeMemory.id => memories'[k] = memories[k]]_vars

\* The note was converted to a document and its first version, saved as
\* text, has been restored: the text content under the type DOCUMENT.
C38_Witness ==
  /\ ev.op = "restore"
  /\ ViewerOpen
  /\ activeMemory.id = 2
  /\ activeMemory.type = "DOCUMENT"
  /\ activeMemory.content = <<"a">>
  /\ Len(activeMemory.history) = 4

\* C39: after a start of the application the viewport has scale 1 and
\* renders the centroid of the loaded memories at the screen centre, or the
\* world origin when the loaded list is empty.
C39_StartupCentred ==
  ev.op = "reload" =>
    LET n == Len(memories)
        v == canvas.viewport
    IN /\ v.scale = ScaleUnit
       /\ IF n = 0
          THEN /\ v.x = OffsetUnit * ScreenCenterX
               /\ v.y = OffsetUnit * ScreenCenterY
          ELSE /\ n * v.x = n * OffsetUnit * ScreenCenterX
                              - OffsetUnit * SumOf(memories, "x")
               /\ n * v.y = n * OffsetUnit * ScreenCenterY
                              - OffsetUnit * SumOf(memories, "y")

====
